---- MODULE Spec2Model ----
(***************************************************************************)
(* Drug verification pipeline: the Orchestrator                           *)
(* (verification_workflow.handler), the Extraction Stage                   *)
(* (image_processor.handler) and the Matching Stage                        *)
(* (nafdac_validator_container.lambda_handler), with the blob store (S3)   *)
(* and the durable record store (DynamoDB) they write to.                  *)
(*                                                                         *)
(* Representation.  A Python str is a sequence of one-character strings;   *)
(* Python None in a str-typed place is the sentinel None below, which is   *)
(* no sequence of one-character strings.  A Python dict is a record; a key *)
(* that is absent from the dict is absent from the record's DOMAIN.  A     *)
(* JSON document (json.dumps) is the record [json |-> d]; json.loads reads *)
(* it back.  An optional number is <<>> (None) or <<n>>.                   *)
(***************************************************************************)
EXTENDS Integers, Sequences, FiniteSets, TLC

\* ---------------------------------------------------------------- bounds
\* Requests served by the Orchestrator, one after the other.
MaxReq == 1
\* Records the /validate endpoint lets the durable store accept.
MaxWrites == 2

\* ------------------------------------------------------------- Python values
None == <<"None">>
NoNumber == <<>>

\* bool(s) of a str-or-None value: None and '' are falsy.
Truthy(s) == s # None /\ s # <<>>

\* d.get(k) of a dict.
Get(d, k) == IF k \in DOMAIN d THEN d[k] ELSE None

\* d.get(k, default) of a dict.
GetOr(d, k, default) == IF k \in DOMAIN d THEN d[k] ELSE default

\* json.dumps / json.loads.
json_dumps(d) == [json |-> d]
json_loads(s) == s.json

\* isinstance(x, str) for a value that is a JSON document or a dict.
IsJsonStr(x) == DOMAIN x = {"json"}

Whitespace == {" ", "\n", "\t"}

\* str.lstrip(chars) / str.rstrip(chars) / str.strip(chars).
RECURSIVE LStrip(_, _)
LStrip(s, chars) ==
    IF s # <<>> /\ Head(s) \in chars THEN LStrip(Tail(s), chars) ELSE s

RECURSIVE RStrip(_, _)
RStrip(s, chars) ==
    IF s # <<>> /\ s[Len(s)] \in chars
    THEN RStrip(SubSeq(s, 1, Len(s) - 1), chars)
    ELSE s

StripChars(s, chars) == RStrip(LStrip(s, chars), chars)

\* str.strip() with no argument: whitespace.
Strip(s) == StripChars(s, Whitespace)

\* str(uuid.uuid4()) of the n-th request: a fresh value per call.
uuid4(n) == <<"u", ToString(n)>>

\* datetime.utcnow().isoformat() at clock tick t.
isoformat(t) == <<"T", ToString(t)>>

\* 90 days, in seconds: the retention horizon of a record.
TTL_SECONDS == 7776000

CorsHeaders ==
    [ContentType |-> "application/json", AccessControlAllowOrigin |-> "*"]

\* ------------------------------------------------------------- sample data
A4_101466 == <<"A", "4", "-", "1", "0", "1", "4", "6", "6">>
B4_1650 == <<"B", "4", "-", "1", "6", "5", "0">>
PANADOL == <<"P", "A", "N", "A", "D", "O", "L">>

\* A results-table row is the sequence of the texts of its <td> cells.
Cell(c) == <<" ", c, " ">>
FullRow(c) ==
    <<Cell(c), Cell("i"), Cell("d"), Cell("n"), <<>>, <<>>, <<>>, <<>>, <<>>,
      Cell("s")>>
ShortRow == <<Cell("x"), Cell("y"), Cell("z")>>
WideRow(c) == FullRow(c) \o <<Cell("e")>>

\* What the registry page can show: the lists of rows of the results table.
RowLists ==
    { <<ShortRow>>, <<FullRow("p"), ShortRow, FullRow("q")>>,
      <<ShortRow, WideRow("w")>> }

\* What the browser session can do (Selenium against the registry page).
BrowserOutcomes ==
    { [kind |-> k, rows |-> <<>>] :
        k \in {"chrome_raises", "get_raises", "field_missing",
               "results_timeout"} }
    \cup { [kind |-> "table", rows |-> rs] : rs \in RowLists }
    \cup { [kind |-> "row_raises", rows |-> rs] : rs \in {<<FullRow("p")>>} }

\* ------------------------------------------------------------ Matching Stage
\* A row becomes a match only with at least this many <td> cells.
MIN_COLUMNS == 10

SEARCH_BY_NUMBER == "NAFDAC number"
SEARCH_BY_NAME == "product name"

\* The ids of the two search fields of the registry page.
SEARCH_FIELD_NUMBER == "search_nrn"
SEARCH_FIELD_NAME == "search_product"

\* As SearchMode, but the product name is preferred when there is one.
SearchMode_name_first(nafdac_number, product_name) ==
    IF Truthy(product_name)
    THEN [search_field_id |-> SEARCH_FIELD_NAME,
          search_term |-> product_name,
          search_type |-> SEARCH_BY_NAME]
    ELSE [search_field_id |-> SEARCH_FIELD_NUMBER,
          search_term |-> nafdac_number,
          search_type |-> SEARCH_BY_NUMBER]

\* "Determine search field and term": by number when there is one, else by
\* product name.
SearchMode(nafdac_number, product_name) ==
    IF Truthy(nafdac_number)
    THEN [search_field_id |-> SEARCH_FIELD_NUMBER,
          search_term |-> nafdac_number,
          search_type |-> SEARCH_BY_NUMBER]
    ELSE [search_field_id |-> SEARCH_FIELD_NAME,
          search_term |-> product_name,
          search_type |-> SEARCH_BY_NAME]

\* As NoSearchTermResult, but with success true.
NoSearchTermResult_success ==
    [success |-> TRUE,
     message |-> <<"No NAFDAC number or product name provided">>]

\* The verdict when there is neither a number nor a product name.
NoSearchTermResult ==
    [success |-> FALSE,
     message |-> <<"No NAFDAC number or product name provided">>]

\* f"Product not found in NAFDAC Greenbook (searched by {search_type})"
NotFoundMessage(search_type) ==
    <<"Product not found in NAFDAC Greenbook (searched by ", search_type, ")">>

\* As get_dummy_validation_result, but reporting the failure.
get_dummy_unsuccessful(nafdac_number) ==
    [success |-> FALSE,
     nafdacNumber |-> nafdac_number,
     found |-> FALSE,
     message |-> <<"Product not found in NAFDAC Greenbook">>]

\* As get_dummy_validation_result, without the canned product.
get_dummy_never_found(nafdac_number) ==
    [success |-> TRUE,
     nafdacNumber |-> nafdac_number,
     found |-> FALSE,
     message |-> <<"Product not found in NAFDAC Greenbook">>]

\* get_dummy_validation_result: the canned verdict used when scraping fails.
get_dummy_validation_result(nafdac_number) ==
    IF nafdac_number = A4_101466
    THEN [success |-> TRUE,
          nafdacNumber |-> nafdac_number,
          found |-> TRUE,
          results |-> << [product_name |-> <<"Paracetamol 500mg Tablets">>,
                          active_ingredients |-> <<"Paracetamol">>,
                          product_category |-> <<"Drugs">>,
                          nrn |-> A4_101466,
                          status |-> <<"Active">>] >>]
    ELSE [success |-> TRUE,
          nafdacNumber |-> nafdac_number,
          found |-> FALSE,
          message |-> <<"Product not found in NAFDAC Greenbook">>]

\* The dict built from one row's cells (cells[0..3] and cells[9], stripped).
ParseRow(cells) ==
    [product_name |-> Strip(cells[1]),
     active_ingredients |-> Strip(cells[2]),
     product_category |-> Strip(cells[3]),
     nrn |-> Strip(cells[4]),
     status |-> Strip(cells[10])]

\* As ParseRows, but a row needs more than MIN_COLUMNS cells.
ParseRows_more_than_ten(rows) ==
    LET kept == SelectSeq(rows, LAMBDA cells : Len(cells) > MIN_COLUMNS)
    IN  [i \in 1..Len(kept) |-> ParseRow(kept[i])]

\* The loop over the rows of the results table: rows with fewer than
\* MIN_COLUMNS cells are skipped, the others are parsed in page order.
ParseRows(rows) ==
    LET kept == SelectSeq(rows, LAMBDA cells : Len(cells) >= MIN_COLUMNS)
    IN  [i \in 1..Len(kept) |-> ParseRow(kept[i])]

\* As SearchResult, but found is true whatever the rows.
SearchResult_always_found(search_term, search_type, nafdac_number, results) ==
    [success |-> TRUE,
     searchTerm |-> search_term,
     searchType |-> search_type,
     nafdacNumber |-> nafdac_number,
     found |-> TRUE,
     results |-> results]

\* The verdict of a search that ran to its end.
SearchResult(search_term, search_type, nafdac_number, results) ==
    IF results # <<>>
    THEN [success |-> TRUE,
          searchTerm |-> search_term,
          searchType |-> search_type,
          nafdacNumber |-> nafdac_number,
          found |-> TRUE,
          results |-> results]
    ELSE [success |-> TRUE,
          searchTerm |-> search_term,
          searchType |-> search_type,
          nafdacNumber |-> nafdac_number,
          found |-> FALSE,
          message |-> NotFoundMessage(search_type)]

\* As OnResultsTimeout, but the TimeoutException is not caught there.
OnResultsTimeout_uncaught(search_field_id, search_term, search_type, nafdac_number) ==
    [raised |-> TRUE,
     calls |-> <<"get", search_field_id, "send_keys", "sleep", "wait_results">>,
     result |-> <<>>]

\* As OnResultsTimeout, but the verdict is returned with the driver left
\* open.
OnResultsTimeout_leaves_open(search_field_id, search_term, search_type, nafdac_number) ==
    [raised |-> FALSE,
     calls |-> <<"get", search_field_id, "send_keys", "sleep", "wait_results">>,
     result |-> [success |-> TRUE,
                 searchTerm |-> search_term,
                 searchType |-> search_type,
                 nafdacNumber |-> nafdac_number,
                 found |-> FALSE,
                 message |-> NotFoundMessage(search_type)]]

\* The wait for the results table timing out (except TimeoutException): the
\* driver is quit and a "not found" verdict is returned.
OnResultsTimeout(search_field_id, search_term, search_type, nafdac_number) ==
    [raised |-> FALSE,
     calls |-> <<"get", search_field_id, "send_keys", "sleep", "wait_results",
                 "quit">>,
     result |-> [success |-> TRUE,
                 searchTerm |-> search_term,
                 searchType |-> search_type,
                 nafdacNumber |-> nafdac_number,
                 found |-> FALSE,
                 message |-> NotFoundMessage(search_type)]]

\* What happens once the driver exists (the inner try of
\* scrape_nafdac_greenbook): the browser calls made, in order, and either
\* the verdict returned or the fact that an exception left the block (there
\* is no verdict then).
\* br is what the browser does in this session; driver.quit() is taken not
\* to raise.
BrowserSession(search_field_id, search_term, search_type, nafdac_number, br) ==
    CASE br.kind = "get_raises" ->
           [raised |-> TRUE, calls |-> <<"get">>, result |-> <<>>]
      [] br.kind = "field_missing" ->
           [raised |-> TRUE, calls |-> <<"get", search_field_id>>,
            result |-> <<>>]
      [] br.kind = "results_timeout" ->
           OnResultsTimeout(search_field_id, search_term, search_type, nafdac_number)
      [] br.kind = "row_raises" ->
           [raised |-> TRUE,
            calls |-> <<"get", search_field_id, "send_keys", "sleep",
                        "wait_results", "find_rows">>,
            result |-> <<>>]
      [] OTHER ->
           [raised |-> FALSE,
            calls |-> <<"get", search_field_id, "send_keys", "sleep",
                        "wait_results", "find_rows", "quit">>,
            result |-> SearchResult(search_term, search_type, nafdac_number,
                                    ParseRows(br.rows))]

\* scrape_nafdac_greenbook: [result |-> the verdict, session |-> the browser
\* calls made, "Chrome" being the creation of the driver].
scrape_nafdac_greenbook(nafdac_number, product_name, br) ==
    IF ~Truthy(nafdac_number) /\ ~Truthy(product_name)
    THEN [result |-> NoSearchTermResult, session |-> <<>>]
    ELSE
      LET mode == SearchMode(nafdac_number, product_name)
          search_field_id == mode.search_field_id
          search_term == mode.search_term
          search_type == mode.search_type
          fallback == get_dummy_validation_result(
                          IF Truthy(nafdac_number) THEN nafdac_number
                          ELSE product_name)
      IN  IF br.kind = "chrome_raises"
          THEN [result |-> fallback, session |-> <<>>]
          ELSE
            LET s == BrowserSession(search_field_id, search_term,
                                    search_type, nafdac_number, br)
            IN  IF s.raised
                THEN [result |-> fallback,
                      session |-> <<"Chrome">> \o s.calls \o <<"quit">>]
                ELSE [result |-> s.result,
                      session |-> <<"Chrome">> \o s.calls]

\* As store_verification_result, but the nafdacNumber attribute is always
\* set, to the null value when there is no number.
store_verification_result_always_sets_number(verification_id, timestamp, image_key, nafdac_number, validation_result, now) ==
    [verificationId |-> verification_id,
     timestamp |-> timestamp,
     imageKey |-> image_key,
     validationResult |-> validation_result,
     ttl |-> now + TTL_SECONDS,
     nafdacNumber |-> IF Truthy(nafdac_number) THEN nafdac_number ELSE None]

\* store_verification_result: the Item handed to table.put_item.  The
\* nafdacNumber attribute is set only for a truthy number; ttl is now plus
\* 90 days.
store_verification_result(verification_id, timestamp, image_key, nafdac_number, validation_result, now) ==
    IF Truthy(nafdac_number)
    THEN [verificationId |-> verification_id,
          timestamp |-> timestamp,
          imageKey |-> image_key,
          validationResult |-> validation_result,
          ttl |-> now + TTL_SECONDS,
          nafdacNumber |-> nafdac_number]
    ELSE [verificationId |-> verification_id,
          timestamp |-> timestamp,
          imageKey |-> image_key,
          validationResult |-> validation_result,
          ttl |-> now + TTL_SECONDS]

\* The global secondary index NafdacNumberIndex, whose partition key is
\* nafdacNumber: the keys of the items of table t that have the attribute.
NafdacNumberIndex(t) == {k \in DOMAIN t : "nafdacNumber" \in DOMAIN t[k]}

\* As put_item, but the call is never made.
put_item_skipped(t, item) == t

\* As put_item, but conditional: an existing item is kept.
put_item_if_absent(t, item) ==
    IF item.verificationId \in DOMAIN t THEN t
    ELSE [k \in DOMAIN t \cup {item.verificationId} |->
             IF k = item.verificationId THEN item ELSE t[k]]

\* table.put_item on the verification table, whose primary key is the
\* partition key verificationId alone: the item replaces the item that has
\* the same verificationId, if there is one.
put_item(t, item) ==
    [k \in DOMAIN t \cup {item.verificationId} |->
        IF k = item.verificationId THEN item ELSE t[k]]

\* A request body that is not JSON (the text "{"): json.loads raises on it.
BadJson == [json |-> [JSONDecodeError |-> <<"{">>]]
json_raises(s) == s = BadJson
BodyRaises(event) ==
    "body" \in DOMAIN event /\ IsJsonStr(event.body) /\ json_raises(event.body)

\* The event's body: event['body'] parsed when it is a JSON string, taken as
\* is when it is a dict, the event itself when it has no 'body'.
ParseBody(event) ==
    IF "body" \in DOMAIN event
    THEN IF IsJsonStr(event.body) THEN json_loads(event.body) ELSE event.body
    ELSE event

ErrorResponse(status, error) ==
    [statusCode |-> status,
     headers |-> CorsHeaders,
     body |-> json_dumps([error |-> error])]

OkResponse(response) ==
    [statusCode |-> 200,
     headers |-> CorsHeaders,
     body |-> json_dumps(response)]

\* As MissingRequiredFields, but the timestamp is not looked at.
MissingRequiredFields_idOnly(verification_id, timestamp) ==
    ~Truthy(verification_id)

\* As MissingRequiredFields, but only the timestamp is required.
MissingRequiredFields_timestampOnly(verification_id, timestamp) ==
    ~Truthy(timestamp)

\* if not verification_id or not timestamp
MissingRequiredFields(verification_id, timestamp) ==
    ~Truthy(verification_id) \/ ~Truthy(timestamp)

\* lambda_handler of the Matching Stage, run to its end on `event` at time
\* `now`; br is what the browser does and put_ok whether table.put_item
\* succeeds (it raises otherwise).  The outcome: the response returned, the
\* browser calls made, the items handed to table.put_item, and the items
\* the table accepted.
lambda_handler(event, br, put_ok, now) ==
    LET body == ParseBody(event)
        verification_id == Get(body, "verificationId")
        timestamp == Get(body, "timestamp")
        image_key == Get(body, "imageKey")
        nafdac_number == Get(body, "nafdacNumber")
        product_name == Get(body, "productName")
    IN
    IF BodyRaises(event)
    THEN [response |-> ErrorResponse(500, <<"json.loads raised">>),
          session |-> <<>>, puts |-> <<>>, stored |-> <<>>]
    ELSE IF MissingRequiredFields(verification_id, timestamp)
    THEN [response |-> ErrorResponse(400, <<"Missing required fields">>),
          session |-> <<>>, puts |-> <<>>, stored |-> <<>>]
    ELSE
      LET scraped ==
              IF Truthy(nafdac_number) \/ Truthy(product_name)
              THEN scrape_nafdac_greenbook(nafdac_number, product_name, br)
              ELSE [result |-> NoSearchTermResult, session |-> <<>>]
          validation_result == scraped.result
          item == store_verification_result(verification_id, timestamp,
                      image_key, nafdac_number, validation_result, now)
      IN  IF put_ok
          THEN [response |->
                    OkResponse([verificationId |-> verification_id,
                                timestamp |-> timestamp,
                                imageKey |-> image_key,
                                nafdacNumber |-> nafdac_number,
                                validationResult |-> validation_result]),
                session |-> scraped.session,
                puts |-> <<item>>,
                stored |-> <<item>>]
          ELSE [response |-> ErrorResponse(500, <<"put_item failed">>),
                session |-> scraped.session,
                puts |-> <<item>>,
                stored |-> <<>>]

\* ---------------------------------------------------------- Extraction Stage
UpperCase ==
    <<"A", "B", "C", "D", "E", "F", "G", "H", "I", "J", "K", "L", "M",
      "N", "O", "P", "Q", "R", "S", "T", "U", "V", "W", "X", "Y", "Z">>
LowerCase ==
    <<"a", "b", "c", "d", "e", "f", "g", "h", "i", "j", "k", "l", "m",
      "n", "o", "p", "q", "r", "s", "t", "u", "v", "w", "x", "y", "z">>
Digits == {"0", "1", "2", "3", "4", "5", "6", "7", "8", "9"}

Range(f) == {f[i] : i \in DOMAIN f}

IsDigit(c) == c \in Digits
IsUpper(c) == c \in Range(UpperCase)
IsLower(c) == c \in Range(LowerCase)
\* \w of a regular expression.
IsWord(c) == IsDigit(c) \/ IsUpper(c) \/ IsLower(c) \/ c = "_"
\* \s of a regular expression.
IsSpace(c) == c \in Whitespace

\* str.upper(), character by character.
UpperChar(c) ==
    IF IsLower(c)
    THEN UpperCase[CHOOSE i \in DOMAIN LowerCase : LowerCase[i] = c]
    ELSE c
upper(s) == [i \in 1..Len(s) |-> UpperChar(s[i])]

\* [A-Z] under re.IGNORECASE.
IsLetterIgnoreCase(c) == IsUpper(c) \/ IsLower(c)

\* As WordBoundary, but every position is a boundary.
WordBoundary_anywhere(text, p) == TRUE

\* \b between text[p] and text[p+1] (p = 0 is the start, p = Len the end).
WordBoundary(text, p) ==
    LET before == p >= 1 /\ IsWord(text[p])
        after == p + 1 <= Len(text) /\ IsWord(text[p + 1])
    IN  before # after

\* nafdac_patterns, in the order the code tries them:
\*   \b[A-Z]\d{1,2}\s*-\s*\d{4,6}\b   and   \b\d{2}\s*-\s*\d{4,6}\b
\* letter: whether the pattern starts with [A-Z]; the prefix is lo..hi digits.
nafdac_patterns ==
    << [letter |-> TRUE, lo |-> 1, hi |-> 2],
       [letter |-> FALSE, lo |-> 2, hi |-> 2] >>

\* The suffix of a registration number: \d{4,6}.
MIN_SUFFIX == 4
MAX_SUFFIX == 6

\* Whether text[i..e] is a match of the pattern (re.IGNORECASE): the letter,
\* d prefix digits, w1 whitespace, the hyphen, w2 whitespace, m suffix
\* digits, with \b on both sides.
IsMatch(pattern, text, i, e) ==
    LET h == IF pattern.letter THEN 1 ELSE 0
        n == e - i + 1
    IN  /\ WordBoundary(text, i - 1)
        /\ WordBoundary(text, e)
        /\ pattern.letter => IsLetterIgnoreCase(text[i])
        /\ \E d \in pattern.lo..pattern.hi, m \in MIN_SUFFIX..MAX_SUFFIX :
             \E w1 \in 0..(n - h - d - 1 - m) :
                LET hy == i + h + d + w1
                IN  /\ \A k \in (i + h)..(i + h + d - 1) : IsDigit(text[k])
                    /\ \A k \in (i + h + d)..(hy - 1) : IsSpace(text[k])
                    /\ text[hy] = "-"
                    /\ \A k \in (hy + 1)..(e - m) : IsSpace(text[k])
                    /\ \A k \in (e - m + 1)..e : IsDigit(text[k])

SetMin(S) == CHOOSE x \in S : \A y \in S : x <= y
SetMax(S) == CHOOSE x \in S : \A y \in S : y <= x

\* re.finditer(pattern, text, re.IGNORECASE) from position pos on: the
\* non-overlapping matches, leftmost first.  (A start has at most one end:
\* every quantified part is followed by something it cannot match.)
RECURSIVE finditer(_, _, _)
finditer(pattern, text, pos) ==
    LET starts == {i \in pos..Len(text) :
                      \E e \in i..Len(text) : IsMatch(pattern, text, i, e)}
    IN  IF starts = {}
        THEN <<>>
        ELSE LET i == SetMin(starts)
                 e == SetMax({x \in i..Len(text) : IsMatch(pattern, text, i, x)})
             IN  <<SubSeq(text, i, e)>> \o finditer(pattern, text, e + 1)

\* As NormalizeHyphen, but only the whitespace before a hyphen is removed.
RECURSIVE NormalizeHyphen_before_only(_)
NormalizeHyphen_before_only(s) ==
    IF s = <<>> THEN <<>>
    ELSE IF IsSpace(Head(s)) /\ LStrip(s, Whitespace) # <<>>
            /\ Head(LStrip(s, Whitespace)) = "-"
         THEN NormalizeHyphen_before_only(LStrip(s, Whitespace))
         ELSE <<Head(s)>> \o NormalizeHyphen_before_only(Tail(s))

\* re.sub(r'\s*-\s*', '-', s): whitespace around every hyphen removed.
RECURSIVE NormalizeHyphen(_)
NormalizeHyphen(s) ==
    IF s = <<>> THEN <<>>
    ELSE IF Head(s) = "-"
         THEN <<"-">> \o NormalizeHyphen(LStrip(Tail(s), Whitespace))
         ELSE IF IsSpace(Head(s)) /\ LStrip(s, Whitespace) # <<>>
                 /\ Head(LStrip(s, Whitespace)) = "-"
              THEN NormalizeHyphen(LStrip(s, Whitespace))
              ELSE <<Head(s)>> \o NormalizeHyphen(Tail(s))

\* The candidates of one recognized line: for each pattern in turn, each
\* match, stripped, upper-cased and normalized, with the line's confidence.
LineCandidates(text, confidence) ==
    LET of(pattern) ==
            LET ms == finditer(pattern, text, 1)
            IN  [j \in 1..Len(ms) |->
                    [number |-> NormalizeHyphen(upper(Strip(ms[j]))),
                     confidence |-> confidence]]
    IN  of(nafdac_patterns[1]) \o of(nafdac_patterns[2])

\* An external call in the log of a run: its name and whether it raised.
Call(name) == [name |-> name, raised |-> FALSE]
Raised(name) == [name |-> name, raised |-> TRUE]

\* ' '.join(lines)
RECURSIVE JoinWithSpace(_)
JoinWithSpace(lines) ==
    IF lines = <<>> THEN <<>>
    ELSE IF Len(lines) = 1 THEN lines[1]
         ELSE lines[1] \o <<" ">> \o JoinWithSpace(Tail(lines))

\* s.split('\n')[0]
RECURSIVE FirstLine(_)
FirstLine(s) ==
    IF s = <<>> \/ Head(s) = "\n" THEN <<>>
    ELSE <<Head(s)>> \o FirstLine(Tail(s))

Quotes == {"\"", "'"}

\* As ProductNameOf, but the first line is taken before trimming, and
\* quotes and whitespace are trimmed together.
ProductNameOf_split_first(text) ==
    LET product_name == StripChars(FirstLine(text), Quotes \cup Whitespace)
    IN  IF product_name # <<>> THEN product_name ELSE None

\* The product name taken from the model's reply:
\* text.strip().strip('"\'').split('\n')[0], None when that is empty.
ProductNameOf(text) ==
    LET product_name == FirstLine(StripChars(Strip(text), Quotes))
    IN  IF product_name # <<>> THEN product_name ELSE None

\* As extract_product_name_with_bedrock, but '' when the call raises.
extract_product_name_empty_on_error(image_data, ocr_text, ai) ==
    IF ai.kind = "raises" THEN <<>> ELSE ProductNameOf(ai.text)

\* extract_product_name_with_bedrock: ai is what the model call does
\* (kind "raises", or kind "text" with the reply).
extract_product_name_with_bedrock(image_data, ocr_text, ai) ==
    IF ai.kind = "raises" THEN None ELSE ProductNameOf(ai.text)

\* The candidates of all the LINE blocks, in block order.
RECURSIVE Candidates(_)
Candidates(blocks) ==
    IF blocks = <<>> THEN <<>>
    ELSE (IF Head(blocks).BlockType = "LINE"
          THEN LineCandidates(GetOr(Head(blocks), "Text", <<>>),
                              GetOr(Head(blocks), "Confidence", 0))
          ELSE <<>>)
         \o Candidates(Tail(blocks))

\* The texts of all the LINE blocks, in block order.
AllText(blocks) ==
    LET lines == SelectSeq(blocks, LAMBDA b : b.BlockType = "LINE")
    IN  [i \in 1..Len(lines) |-> GetOr(lines[i], "Text", <<>>)]

\* As Best, but the last candidate of the highest confidence.
Best_last_of_highest(candidates) ==
    LET top == SetMax({candidates[i].confidence : i \in DOMAIN candidates})
        last == SetMax({i \in DOMAIN candidates :
                           candidates[i].confidence = top})
    IN  candidates[last]

\* max(candidates, key=confidence): the first candidate of the highest
\* confidence.
Best(candidates) ==
    LET top == SetMax({candidates[i].confidence : i \in DOMAIN candidates})
        first == SetMin({i \in DOMAIN candidates :
                            candidates[i].confidence = top})
    IN  candidates[first]

OcrFailed ==
    [nafdacNumber |-> None, confidence |-> NoNumber, allText |-> <<>>,
     productName |-> None]

\* As OcrResult, but the model is asked for the product name of a non-empty
\* image also when a candidate was found.
OcrResult_always_names(nafdac_candidates, full_text, image_data, ai) ==
    IF nafdac_candidates # <<>> /\ image_data # <<>>
    THEN [result |->
              [nafdacNumber |-> Best(nafdac_candidates).number,
               confidence |-> <<Best(nafdac_candidates).confidence>>,
               allText |-> full_text,
               productName |-> None],
          calls |-> <<Call("textract"), Call("bedrock")>>]
    ELSE [result |->
              [nafdacNumber |-> None,
               confidence |-> NoNumber,
               allText |-> full_text,
               productName |-> None],
          calls |-> <<Call("textract")>>]

\* What extract_nafdac_number_ocr returns once the blocks are read: the best
\* candidate when there is one, else the product name the model gives for a
\* non-empty image.
OcrResult(nafdac_candidates, full_text, image_data, ai) ==
    IF nafdac_candidates # <<>>
    THEN [result |->
              [nafdacNumber |-> Best(nafdac_candidates).number,
               confidence |-> <<Best(nafdac_candidates).confidence>>,
               allText |-> full_text,
               productName |-> None],
          calls |-> <<Call("textract")>>]
    ELSE IF image_data # <<>>
         THEN [result |->
                   [nafdacNumber |-> None,
                    confidence |-> NoNumber,
                    allText |-> full_text,
                    productName |->
                        extract_product_name_with_bedrock(
                            image_data, full_text, ai)],
               calls |-> <<Call("textract"),
                           IF ai.kind = "raises" THEN Raised("bedrock")
                           ELSE Call("bedrock")>>]
         ELSE [result |->
                   [nafdacNumber |-> None,
                    confidence |-> NoNumber,
                    allText |-> full_text,
                    productName |-> None],
               calls |-> <<Call("textract")>>]

\* extract_nafdac_number_ocr: ocr is what the text-recognition call does
\* (kind "raises", or kind "blocks" with the Blocks of the response), ai
\* what the model call does.  [result |-> the dict returned, calls |-> the
\* external calls made].
extract_nafdac_number_ocr(s3_key, image_data, ocr, ai) ==
    IF ocr.kind = "raises"
    THEN [result |-> OcrFailed, calls |-> <<Raised("textract")>>]
    ELSE OcrResult(Candidates(ocr.blocks), JoinWithSpace(AllText(ocr.blocks)),
                   image_data, ai)

\* An image travels as a base64 str, here a sequence of tokens: the data-URL
\* prefix, the comma after it, and 4-character base64 groups.  B64_GROUP
\* decodes to the bytes BYTES; B64_CUT is a group cut short, on which
\* base64.b64decode raises; B64_JUNK is outside the base64 alphabet, which
\* b64decode (validate=False) discards.
DATA_URL_PREFIX == "data:image/jpeg;base64"
B64_GROUP == "QUJD"
BYTES == "ABC"
B64_CUT == "QUJ"
B64_JUNK == "!"

\* image_base64.split(',')[1]: what lies between the first comma and the
\* second.
RECURSIVE UpToComma(_)
UpToComma(s) ==
    IF s = <<>> \/ Head(s) = "," THEN <<>>
    ELSE <<Head(s)>> \o UpToComma(Tail(s))

RECURSIVE AfterFirstComma(_)
AfterFirstComma(s) ==
    IF Head(s) = "," THEN Tail(s) ELSE AfterFirstComma(Tail(s))

SplitCommaSecond(s) == UpToComma(AfterFirstComma(s))

HasComma(s) == \E i \in DOMAIN s : s[i] = ","

\* base64.b64decode(s): raises on a group cut short, else the bytes of the
\* complete groups (a sequence of byte chunks).
b64decode_raises(s) == \E i \in DOMAIN s : s[i] = B64_CUT
b64decode(s) ==
    LET groups == SelectSeq(s, LAMBDA t : t = B64_GROUP)
    IN  [i \in 1..Len(groups) |-> BYTES]

\* As s3_key_of, but the key is made of the timestamp alone.
s3_key_of_timestamp_only(verification_id, timestamp) ==
    <<"images/">> \o timestamp \o <<".jpg">>

\* store_image_in_s3: the key images/{timestamp}_{verification_id}.jpg.
s3_key_of(verification_id, timestamp) ==
    <<"images/">> \o timestamp \o <<"_">> \o verification_id \o <<".jpg">>

\* As ImageMissing, but only an absent (None) image is rejected.
ImageMissing_noneOnly(image_base64) == image_base64 = None

\* if not image_base64
ImageMissing(image_base64) == ~Truthy(image_base64)

MissingImageResponse ==
    [statusCode |-> 400,
     body |-> json_dumps([error |-> <<"Missing image data">>])]

\* if ',' in image_base64: image_base64 = image_base64.split(',')[1]
RemoveDataUrlPrefix(image_base64) ==
    IF HasComma(image_base64) THEN SplitCommaSecond(image_base64)
    ELSE image_base64

\* As OcrOrManual, but recognition runs whatever the request carries.
OcrOrManual_always_recognizes(body, s3_key, image_data, ocr, ai) ==
    extract_nafdac_number_ocr(s3_key, image_data, ocr, ai)

\* The extraction proper: recognition, unless the request carries a number.
OcrOrManual(body, s3_key, image_data, ocr, ai) ==
    IF ~Truthy(Get(body, "nafdacNumber"))
    THEN extract_nafdac_number_ocr(s3_key, image_data, ocr, ai)
    ELSE [result |-> [nafdacNumber |-> Get(body, "nafdacNumber"),
                      confidence |-> NoNumber,
                      allText |-> None,
                      productName |-> None],
          calls |-> <<>>]

\* As ExtractionResponse, but a null confidence is reported as 0.
ExtractionResponse_confidence_zero(verification_id, timestamp, s3_key, image_data, extraction) ==
    [response |->
         OkResponse([verificationId |-> verification_id,
                     timestamp |-> timestamp,
                     imageKey |-> s3_key,
                     nafdacNumber |-> extraction.result.nafdacNumber,
                     productName |-> extraction.result.productName,
                     ocrConfidence |->
                         IF extraction.result.confidence = NoNumber
                         THEN <<0>> ELSE extraction.result.confidence,
                     extractedText |-> extraction.result.allText]),
     calls |-> <<Call("s3.put_object")>> \o extraction.calls,
     blobs |-> << [Key |-> s3_key, Body |-> image_data] >>]

\* The 200 response built from the extraction, with the calls made and the
\* blob stored.
ExtractionResponse(verification_id, timestamp, s3_key, image_data, extraction) ==
    [response |->
         OkResponse([verificationId |-> verification_id,
                     timestamp |-> timestamp,
                     imageKey |-> s3_key,
                     nafdacNumber |-> extraction.result.nafdacNumber,
                     productName |-> extraction.result.productName,
                     ocrConfidence |-> extraction.result.confidence,
                     extractedText |-> extraction.result.allText]),
     calls |-> <<Call("s3.put_object")>> \o extraction.calls,
     blobs |-> << [Key |-> s3_key, Body |-> image_data] >>]

\* The handler from the decoding of the image on.
DecodeStoreExtract(body, payload, verification_id, timestamp, s3_ok, ocr, ai) ==
    IF b64decode_raises(payload)
    THEN [response |-> ErrorResponse(500, <<"Incorrect padding">>),
          calls |-> <<>>, blobs |-> <<>>]
    ELSE IF ~s3_ok
    THEN [response |-> ErrorResponse(500, <<"put_object failed">>),
          calls |-> <<Raised("s3.put_object")>>, blobs |-> <<>>]
    ELSE ExtractionResponse(
             verification_id, timestamp,
             s3_key_of(verification_id, timestamp), b64decode(payload),
             OcrOrManual(body, s3_key_of(verification_id, timestamp),
                         b64decode(payload), ocr, ai))

\* handler of the Extraction Stage (image_processor.handler), run to its end
\* on `event`; verification_id and timestamp are the uuid4 and utcnow values
\* it draws, s3_ok whether s3.put_object succeeds, ocr and ai what the
\* text-recognition and model calls do.  The outcome: the response
\* returned, the external calls made in order, and the blobs stored.
image_processor_handler(event, verification_id, timestamp, s3_ok, ocr, ai) ==
    IF ImageMissing(GetOr(ParseBody(event), "image", <<>>))
    THEN [response |-> MissingImageResponse, calls |-> <<>>, blobs |-> <<>>]
    ELSE DecodeStoreExtract(
             ParseBody(event),
             RemoveDataUrlPrefix(GetOr(ParseBody(event), "image", <<>>)),
             verification_id, timestamp, s3_ok, ocr, ai)

\* ------------------------------------------------------------- Orchestrator
\* The payload of an invocation that ended in a function error (the runtime
\* killed the function: timeout, out of memory).
FunctionErrorPayload == [errorMessage |-> <<"Task timed out">>]

\* As ValidationFailedResponse, but the error payload is returned as it is.
ValidationFailedResponse_raw(error_payload) == error_payload

\* The three error responses the Orchestrator builds itself.
ValidationFailedResponse(error_payload) ==
    [statusCode |-> 500,
     headers |-> CorsHeaders,
     body |-> json_dumps([error |-> <<"NAFDAC validation failed">>,
                          details |-> error_payload])]

InvokeFailedResponse ==
    [statusCode |-> 500,
     headers |-> CorsHeaders,
     body |-> json_dumps([error |-> <<"Failed to invoke NAFDAC validator">>,
                          details |-> <<"invoke raised">>])]

\* As WorkflowErrorResponse, but the exception leaves the handler and the
\* caller gets the runtime's error payload.
WorkflowErrorResponse_uncaught == [errorMessage |-> <<"workflow raised">>]

\* The Orchestrator's outer except clause: 500 with the text of the
\* exception.
WorkflowErrorResponse == ErrorResponse(500, <<"workflow raised">>)

\* --------------------------------------------------------------- the inputs
PlainImage == <<B64_GROUP>>
DataUrlImage == <<DATA_URL_PREFIX, ",", B64_GROUP>>
CutImage == <<B64_CUT>>
JunkImage == <<B64_JUNK>>

\* The request bodies sent to the Orchestrator.
Bodies ==
    { [nafdacNumber |-> A4_101466],
      [image |-> <<>>],
      [image |-> DataUrlImage, nafdacNumber |-> A4_101466],
      [image |-> CutImage],
      [image |-> JunkImage] }

\* The events the Orchestrator receives: the body as a dict, or under
\* 'body' as a JSON string (the API proxy), well formed or not.
Events ==
    Bodies \cup { [body |-> json_dumps([image |-> PlainImage])],
                  [body |-> BadJson] }

Line(text, confidence) ==
    [BlockType |-> "LINE", Text |-> text, Confidence |-> confidence]

\* What text recognition can answer.
OcrOutcomes ==
    { [kind |-> "raises", blocks |-> <<>>],
      [kind |-> "blocks",
       blocks |-> << [BlockType |-> "PAGE"],
                     Line(<<"x", "4", "-", "1", "6", "5", "0">>, 99),
                     Line(<<"b", "4", " ", "-", " ", "1", "6", "5", "0">>,
                          91) >>],
      [kind |-> "blocks", blocks |-> << Line(PANADOL, 99) >>] }

\* What the vision model can answer.
AiOutcomes ==
    { [kind |-> "raises", text |-> <<>>],
      [kind |-> "text",
       text |-> <<" ", "\"", "P", "A", "N", "\"", "\n", "o", "k">>] }

\* ------------------------------------------------------------------- state
VARIABLES
    clock,      \* the wall clock (datetime.utcnow), in ticks
    nextId,     \* how many uuid4 values have been drawn, plus one
    bucket,     \* the blob store: key -> body of the stored image
    table,      \* the durable store: verificationId -> item
    req,        \* per request of the Orchestrator: where its handler is
    direct,     \* the last call of the Matching Stage through /validate
    written     \* how many table.put_item calls have succeeded

vars == <<clock, nextId, bucket, table, req, direct, written>>

Requests == 1..MaxReq

\* Where a request is.  Idle: not yet sent.  WorkflowError: the
\* Orchestrator's own except clause answered.
Terminal == {"Completed", "ExtractionFailed", "MatchingFailed", "WorkflowError"}

NoRequest ==
    [pc |-> "Idle", event |-> <<>>, ext |-> <<>>, invokes |-> 0,
     val |-> <<>>, response |-> <<>>]

\* As NotOk, but only a 400 counts as a failure.
NotOk_only400(result) ==
    "statusCode" \in DOMAIN result /\ result.statusCode = 400

\* image_result.get('statusCode') != 200
NotOk(result) == ~("statusCode" \in DOMAIN result /\ result.statusCode = 200)

\* As image_data_of, but the imageKey is not passed on.
image_data_of_without_key(image_result) ==
    [k \in DOMAIN json_loads(image_result.body) \ {"imageKey"} |->
        json_loads(image_result.body)[k]]

\* The body (image_data) the Orchestrator forwards to the Matching Stage.
image_data_of(image_result) == json_loads(image_result.body)

Init ==
    /\ clock = 0
    /\ nextId = 1
    /\ bucket = <<>>
    /\ table = <<>>
    /\ req = [r \in Requests |-> NoRequest]
    /\ direct = <<>>
    /\ written = 0

\* s3.put_object of each blob, in order: a key holds the last body put.
RECURSIVE put_objects(_, _)
put_objects(b, blobs) ==
    IF blobs = <<>> THEN b
    ELSE put_objects(
             [k \in DOMAIN b \cup {Head(blobs).Key} |->
                 IF k = Head(blobs).Key THEN Head(blobs).Body ELSE b[k]],
             Tail(blobs))

\* table.put_item of each item, in order.
RECURSIVE put_items(_, _)
put_items(t, items) ==
    IF items = <<>> THEN t
    ELSE put_items(put_item(t, Head(items)), Tail(items))

\* The Orchestrator's handler starts on an event and parses the body; when
\* that raises, its except clause answers 500.
HandlerStarts(r, event) ==
    /\ req[r].pc = "Idle"
    /\ req' = [req EXCEPT ![r] =
                 IF BodyRaises(event)
                 THEN [@ EXCEPT !.pc = "WorkflowError",
                                !.event = <<event>>,
                                !.response = <<WorkflowErrorResponse>>]
                 ELSE [@ EXCEPT !.pc = "Received", !.event = <<event>>]]
    /\ UNCHANGED <<clock, nextId, bucket, table, direct, written>>

\* A request arrives once the requests before it have been answered.
Receive(r, event) ==
    /\ \A q \in DOMAIN req : q < r => req[q].pc \in Terminal
    /\ HandlerStarts(r, event)

\* Step 1: lambda_client.invoke of the Extraction Stage is issued.
InvokeImageProcessor(r) ==
    /\ req[r].pc = "Received"
    /\ req' = [req EXCEPT ![r].pc = "Extracting"]
    /\ UNCHANGED <<clock, nextId, bucket, table, direct, written>>

\* Step 1, the invoke call raising instead of returning (the stage is not
\* taken to have run): the except clause answers 500.
InvokeImageProcessorRaises(r) ==
    /\ req[r].pc = "Extracting"
    /\ req' = [req EXCEPT ![r] =
                 [@ EXCEPT !.pc = "WorkflowError",
                           !.response = <<WorkflowErrorResponse>>]]
    /\ UNCHANGED <<clock, nextId, bucket, table, direct, written>>

\* The invocation of the Extraction Stage ends with the run o: its blobs are
\* in the bucket, and the Orchestrator reads the result and either returns
\* it as it is (statusCode not 200) or goes on.
ExtractionEnds(r, o) ==
    /\ bucket' = put_objects(bucket, o.blobs)
    /\ req' = [req EXCEPT ![r] =
                 IF NotOk(o.response)
                 THEN [@ EXCEPT !.pc = "ExtractionFailed",
                                !.ext = <<o>>,
                                !.response = <<o.response>>]
                 ELSE [@ EXCEPT !.pc = "Extracted", !.ext = <<o>>]]
    /\ nextId' = nextId + 1
    /\ UNCHANGED <<clock, table, direct, written>>

\* The Extraction Stage runs and returns.
ImageProcessorReturns(r) ==
    /\ req[r].pc = "Extracting"
    /\ \E s3_ok \in BOOLEAN, ocr \in OcrOutcomes, ai \in AiOutcomes :
         ExtractionEnds(r,
             image_processor_handler(ParseBody(req[r].event[1]),
                 uuid4(nextId), isoformat(clock), s3_ok, ocr, ai)
             @@ [killed |-> FALSE])

\* A run of the Extraction Stage that the runtime killed, having stored
\* `blobs`: the invocation's payload is the function error, which has no
\* statusCode.
KilledExtraction(blobs) ==
    [response |-> FunctionErrorPayload,
     calls |-> IF blobs # <<>> THEN <<Call("s3.put_object")>> ELSE <<>>,
     blobs |-> blobs,
     killed |-> TRUE]

\* The Extraction Stage is killed by the runtime (timeout), before or after
\* its blob write.
ImageProcessorKilled(r) ==
    /\ req[r].pc = "Extracting"
    /\ \E after \in BOOLEAN :
         ExtractionEnds(r,
             KilledExtraction(
                 IF after
                 THEN image_processor_handler(ParseBody(req[r].event[1]),
                          uuid4(nextId), isoformat(clock), TRUE,
                          [kind |-> "raises", blocks |-> <<>>],
                          [kind |-> "raises", text |-> <<>>]).blobs
                 ELSE <<>>))

\* Step 2: lambda_client.invoke of the Matching Stage is issued.  The clock
\* has advanced since the Extraction Stage read it.
InvokeValidator(r) ==
    /\ req[r].pc = "Extracted"
    /\ req' = [req EXCEPT ![r] =
                 [@ EXCEPT !.pc = "Matching", !.invokes = @ + 1]]
    /\ clock' = clock + 1
    /\ UNCHANGED <<nextId, bucket, table, direct, written>>

\* As InvokeValidatorRaises, but the failure is answered before the call is
\* issued.
InvokeValidatorRaises_before_call(r) ==
    /\ req[r].pc = "Extracted"
    /\ req' = [req EXCEPT ![r] =
                 [@ EXCEPT !.pc = "MatchingFailed",
                           !.invokes = @ + 1,
                           !.response = <<InvokeFailedResponse>>]]
    /\ UNCHANGED <<clock, nextId, bucket, table, direct, written>>

\* Step 2, the invoke call raising instead of returning (the stage is not
\* taken to have run): the inner except clause answers.
InvokeValidatorRaises(r) ==
    /\ req[r].pc = "Matching"
    /\ req' = [req EXCEPT ![r] =
                 [@ EXCEPT !.pc = "MatchingFailed",
                           !.response = <<InvokeFailedResponse>>]]
    /\ UNCHANGED <<clock, nextId, bucket, table, direct, written>>

\* The invocation of the Matching Stage ends with the run o: the items it
\* stored are in the table, and the Orchestrator answers.
MatchingEnds(r, o, pc, response) ==
    /\ table' = put_items(table, o.stored)
    /\ written' = written + Len(o.stored)
    /\ req' = [req EXCEPT ![r] =
                 [@ EXCEPT !.pc = pc,
                           !.val = Append(@, o),
                           !.response = <<response>>]]
    /\ UNCHANGED <<clock, nextId, bucket, direct>>

\* As MatchingReturns, but the Orchestrator answers with the status and the
\* body only.
MatchingReturns_without_headers(r, o) ==
    MatchingEnds(r, o, "Completed",
                 [statusCode |-> o.response.statusCode,
                  body |-> o.response.body])

\* The Matching Stage returned o; the Orchestrator returns its response as
\* the final answer.
MatchingReturns(r, o) == MatchingEnds(r, o, "Completed", o.response)

\* The Matching Stage runs and returns.
ValidatorReturns(r) ==
    /\ req[r].pc = "Matching"
    /\ \E br \in BrowserOutcomes, put_ok \in BOOLEAN :
         MatchingReturns(r,
             lambda_handler(image_data_of(req[r].ext[1].response),
                            br, put_ok, clock)
             @@ [killed |-> FALSE])

\* A run of the Matching Stage that the runtime killed: what the run o had
\* done when it was killed after its durable write, nothing when before.
KilledMatching(o, after) ==
    [response |-> FunctionErrorPayload,
     session |-> IF after THEN o.session ELSE <<>>,
     puts |-> IF after THEN o.puts ELSE <<>>,
     stored |-> IF after THEN o.stored ELSE <<>>,
     killed |-> TRUE]

\* The Matching Stage is killed by the runtime (timeout), before or after
\* its durable write: the response carries FunctionError and the
\* Orchestrator answers 'NAFDAC validation failed'.
ValidatorKilled(r) ==
    /\ req[r].pc = "Matching"
    /\ \E br \in BrowserOutcomes, after \in BOOLEAN :
         MatchingEnds(r,
             KilledMatching(
                 lambda_handler(image_data_of(req[r].ext[1].response),
                                br, TRUE, clock),
                 after),
             "MatchingFailed",
             ValidationFailedResponse(FunctionErrorPayload))

Next ==
    \/ \E r \in DOMAIN req, event \in Events : Receive(r, event)
    \/ \E r \in DOMAIN req : InvokeImageProcessor(r)
    \/ \E r \in DOMAIN req : InvokeImageProcessorRaises(r)
    \/ \E r \in DOMAIN req : ImageProcessorReturns(r)
    \/ \E r \in DOMAIN req : ImageProcessorKilled(r)
    \/ \E r \in DOMAIN req : InvokeValidator(r)
    \/ \E r \in DOMAIN req : InvokeValidatorRaises(r)
    \/ \E r \in DOMAIN req : ValidatorReturns(r)
    \/ \E r \in DOMAIN req : ValidatorKilled(r)

Spec == Init /\ [][Next]_vars

\* ------------------------------------------------- the /validate endpoint
\* The bodies posted to /validate, which the API proxy hands to the Matching
\* Stage under 'body' as a JSON string.
ValidateBodies ==
    LET T0 == isoformat(0)
        full(id) == [verificationId |-> id, timestamp |-> T0,
                     imageKey |-> s3_key_of(id, T0)]
    IN  { full(uuid4(1)),
          full(uuid4(1)) @@ [nafdacNumber |-> A4_101466],
          full(uuid4(1)) @@ [nafdacNumber |-> B4_1650, productName |-> PANADOL],
          full(uuid4(1)) @@ [nafdacNumber |-> <<>>, productName |-> PANADOL],
          full(uuid4(2)) @@ [nafdacNumber |-> B4_1650] }
        \cup { [timestamp |-> T0, nafdacNumber |-> A4_101466],
               [verificationId |-> uuid4(1), nafdacNumber |-> A4_101466],
               [verificationId |-> <<>>, timestamp |-> T0,
                productName |-> PANADOL] }

ValidateEvents ==
    { [body |-> json_dumps(b)] : b \in ValidateBodies }
    \cup { [body |-> BadJson] }

\* A call through /validate ends with the run o.
ValidateEnds(event, br, put_ok, o) ==
    /\ table' = put_items(table, o.stored)
    /\ written' = written + Len(o.stored)
    /\ direct' = << [event |-> event, br |-> br, put_ok |-> put_ok,
                     out |-> o] >>
    /\ UNCHANGED <<clock, nextId, bucket, req>>

\* The Matching Stage is invoked through /validate and runs to its end.
ValidateEndpoint(event) ==
    /\ written < MaxWrites
    /\ \E br \in BrowserOutcomes, put_ok \in BOOLEAN :
         ValidateEnds(event, br, put_ok,
                      lambda_handler(event, br, put_ok, clock))

NextValidate == \E event \in ValidateEvents : ValidateEndpoint(event)

SpecValidate == Init /\ [][NextValidate]_vars

\* ---------------------------------------- the /process-image endpoint
\* Texts of recognized lines.
\* A number with whitespace around the hyphen.
LINE_SPACED ==
    <<"B", "4", " ", "-", " ", "1", "6", "5", "0">>
\* A two-digit number, then a lettered one in lower case.
LINE_TWO ==
    <<"0", "4", "-", "1", "6", "5", "0", " ", "a", "7", "-", "2", "2", "2",
      "2", "2">>
\* A number with a tab before the hyphen.
LINE_TAB ==
    <<"A", "4", "\t", "-", "1", "0", "1", "4", "6", "6">>
\* No number: the shape is glued to a word character.
LINE_GLUED ==
    <<"x", "B", "4", "-", "1", "6", "5", "0">>

\* Replies of the vision model.
REPLY_LISINOPRIL ==
    <<"L", "i", "s", "i", "n", "o", "p", "r", "i", "l", " ", "1", "0", "m",
      "g", " ", "T", "a", "b", "l", "e", "t", "s", "\n", "T", "r", "u",
      "s", "t", " ", "m", "e">>
REPLY_QUOTED_FIRST_LINE ==
    <<" ", "\"", "P", "A", "N", "\"", "\n", "o", "k">>
REPLY_QUOTED ==
    <<"'", "P", "A", "N", "'", "\n">>
REPLY_SPACE_IN_QUOTES ==
    <<"\"", " ", "P", "A", "N", " ", "\"">>
REPLY_ONLY_QUOTES ==
    <<"\"", "\n", "\"">>

\* Lines recognized in one image: at most this many.
MaxLines == 2

\* The LINE blocks text recognition can return, with their confidence.
LineBlocks ==
    { Line(LINE_SPACED, 95), Line(LINE_TWO, 95),
      Line(LINE_TAB, 91), Line(LINE_TAB, 95),
      Line(LINE_GLUED, 99), Line(PANADOL, 99) }

\* The non-empty sequences of at most n elements of S.
RECURSIVE SeqsUpTo(_, _)
SeqsUpTo(S, n) ==
    IF n = 0 THEN {}
    ELSE { <<x>> : x \in S }
         \cup { Append(q, x) : q \in SeqsUpTo(S, n - 1), x \in S }

\* What text recognition can answer to a direct call: it raises, it finds a
\* page without lines, or it finds lines.
OcrReplies ==
    { [kind |-> "raises", blocks |-> <<>>],
      [kind |-> "blocks", blocks |-> << [BlockType |-> "PAGE"] >>] }
    \cup { [kind |-> "blocks", blocks |-> <<[BlockType |-> "PAGE"]>> \o ls] :
             ls \in SeqsUpTo(LineBlocks, MaxLines) }

\* What the vision model can answer to a direct call.
AiReplies ==
    { [kind |-> "raises", text |-> <<>>] }
    \cup { [kind |-> "text", text |-> t] :
             t \in {REPLY_LISINOPRIL, REPLY_QUOTED_FIRST_LINE, REPLY_QUOTED,
                    REPLY_SPACE_IN_QUOTES, REPLY_ONLY_QUOTES} }

\* An operator-supplied number that is not in normal form.
RAW_MANUAL == <<" ", "b", "4", " ", "-", "1", "6", "5", "0">>

\* The bodies posted to /process-image, which the API proxy hands to the
\* Extraction Stage under 'body' as a JSON string.
ProcessImageEvents ==
    { [body |-> json_dumps(b)] :
        b \in { [image |-> PlainImage],
                [image |-> JunkImage],
                [image |-> CutImage],
                [image |-> PlainImage, nafdacNumber |-> <<>>],
                [image |-> PlainImage, nafdacNumber |-> RAW_MANUAL],
                [image |-> DataUrlImage, nafdacNumber |-> A4_101466] } }

\* A call of /process-image that has been sent: the event and what the
\* services will answer during the run.
InitProcessImage ==
    /\ clock = 0
    /\ nextId = 1
    /\ bucket = <<>>
    /\ table = <<>>
    /\ req = [r \in Requests |-> NoRequest]
    /\ written = 0
    /\ \E event \in ProcessImageEvents, s3_ok \in BOOLEAN,
          ocr \in OcrReplies, ai \in AiReplies :
         direct = << [event |-> event, s3_ok |-> s3_ok, ocr |-> ocr,
                      ai |-> ai, out |-> <<>>] >>

\* The call ends with the run o.
ProcessImageEnds(o) ==
    /\ bucket' = put_objects(bucket, o.blobs)
    /\ direct' = << [direct[1] EXCEPT !.out = <<o>>] >>
    /\ nextId' = nextId + 1
    /\ UNCHANGED <<clock, table, req, written>>

\* The Extraction Stage runs to its end on the call.
ProcessImageEndpoint ==
    /\ direct[1].out = <<>>
    /\ ProcessImageEnds(
           image_processor_handler(direct[1].event, uuid4(nextId),
               isoformat(clock), direct[1].s3_ok, direct[1].ocr,
               direct[1].ai))

NextProcessImage == ProcessImageEndpoint

SpecProcessImage == InitProcessImage /\ [][NextProcessImage]_vars

\* ------------------------------------------------- concurrent requests
\* Requests to /verify that are in flight together: each runs in its own
\* invocation of the Orchestrator and of the two stages, and the steps of
\* the requests interleave.
MaxConcurrent == 2

TwoGroupImage == <<B64_GROUP, B64_GROUP>>

\* The events of the concurrent requests: two different images.
ConcurrentEvents ==
    { [body |-> json_dumps([image |-> PlainImage])],
      [image |-> TwoGroupImage, nafdacNumber |-> A4_101466] }

InitConcurrent ==
    /\ clock = 0
    /\ nextId = 1
    /\ bucket = <<>>
    /\ table = <<>>
    /\ req = [r \in 1..MaxConcurrent |-> NoRequest]
    /\ direct = <<>>
    /\ written = 0

\* A request arrives, whatever the others are doing.
ConcurrentReceive(r) ==
    \E event \in ConcurrentEvents : HandlerStarts(r, event)

\* The Extraction Stage runs and returns; the blob write succeeds or not,
\* text recognition finds a number.
ConcurrentExtraction(r) ==
    /\ req[r].pc = "Extracting"
    /\ \E s3_ok \in BOOLEAN :
         ExtractionEnds(r,
             image_processor_handler(ParseBody(req[r].event[1]),
                 uuid4(nextId), isoformat(clock), s3_ok,
                 [kind |-> "blocks", blocks |-> <<Line(B4_1650, 95)>>],
                 [kind |-> "raises", text |-> <<>>])
             @@ [killed |-> FALSE])

\* The Matching Stage runs and returns; the registry shows no result and
\* the durable write succeeds or not.
ConcurrentMatching(r) ==
    /\ req[r].pc = "Matching"
    /\ \E put_ok \in BOOLEAN :
         MatchingReturns(r,
             lambda_handler(image_data_of(req[r].ext[1].response),
                            [kind |-> "results_timeout", rows |-> <<>>],
                            put_ok, clock)
             @@ [killed |-> FALSE])

NextConcurrent ==
    \/ \E r \in DOMAIN req : ConcurrentReceive(r)
    \/ \E r \in DOMAIN req : InvokeImageProcessor(r)
    \/ \E r \in DOMAIN req : ConcurrentExtraction(r)
    \/ \E r \in DOMAIN req : InvokeValidator(r)
    \/ \E r \in DOMAIN req : ConcurrentMatching(r)

SpecConcurrent == InitConcurrent /\ [][NextConcurrent]_vars

\* ------------------------------------------------------ reading the state
\* result.get('statusCode') == code
StatusIs(result, code) ==
    "statusCode" \in DOMAIN result /\ result.statusCode = code

\* The requests whose Extraction Stage invocation has ended.
Extracted == {r \in DOMAIN req : req[r].ext # <<>>}
\* The requests whose Matching Stage invocation has ended.
Matched == {r \in DOMAIN req : req[r].val # <<>>}

ExtOf(r) == req[r].ext[1]
ValOf(r) == req[r].val[1]

\* The body the client sent with request r.
SentBody(r) == ParseBody(req[r].event[1])
SentImage(r) == GetOr(SentBody(r), "image", <<>>)

\* The body of a 200 response.
BodyOf(response) == response.body.json

\* How many records the attempt r has put in the durable store.
RecordsOf(r) == IF req[r].val = <<>> THEN 0 ELSE Len(ValOf(r).stored)

\* ---------------------------------------------------------------- C1
\* C1: when the Extraction Stage's response to the Orchestrator does not
\* have status 200, the Orchestrator's own response is that response, as it
\* is, and the Matching Stage is not invoked.
C1_ExtractionFailureIsReturnedAsIs ==
    \A r \in Extracted :
        ~StatusIs(ExtOf(r).response, 200) =>
            /\ req[r].pc = "ExtractionFailed"
            /\ req[r].response = <<ExtOf(r).response>>
            /\ req[r].invokes = 0
            /\ req[r].val = <<>>

\* A request without an image: the Extraction Stage's 400 is the final
\* answer, and the Matching Stage was not invoked.
C1_Witness ==
    \E r \in Extracted :
        /\ ~Truthy(SentImage(r))
        /\ StatusIs(ExtOf(r).response, 400)
        /\ req[r].pc = "ExtractionFailed"
        /\ req[r].response = <<ExtOf(r).response>>
        /\ req[r].invokes = 0

\* ---------------------------------------------------------------- C2
\* C2 as stated: every attempt that has ended has put exactly one record in
\* the durable store.
C2_ExactlyOneRecordPerAttempt ==
    \A r \in DOMAIN req : req[r].pc \in Terminal => RecordsOf(r) = 1

\* C2, amended: an attempt puts at most one record in the durable store, and
\* only the Matching Stage puts it.  An attempt whose extraction did not
\* return 200 puts none; an attempt the Orchestrator answers with the
\* Matching Stage's 200 has put exactly one, which the store holds under the
\* attempt's verificationId; an attempt whose put raised has none and is
\* answered 500.
C2_AtMostOneRecordPerAttempt ==
    /\ \A r \in DOMAIN req :
         /\ RecordsOf(r) <= 1
         /\ req[r].invokes <= 1
         /\ Len(req[r].val) <= req[r].invokes
         /\ (r \notin Extracted \/ ~StatusIs(ExtOf(r).response, 200))
                => RecordsOf(r) = 0
         /\ (req[r].pc = "Completed" /\ StatusIs(req[r].response[1], 200)) =>
                LET id == BodyOf(ExtOf(r).response).verificationId
                IN  /\ RecordsOf(r) = 1
                    /\ id \in DOMAIN table
                    /\ table[id] = ValOf(r).stored[1]
                    /\ table[id].verificationId = id
         /\ (req[r].pc = "Completed" /\ ~StatusIs(req[r].response[1], 200)) =>
                /\ RecordsOf(r) = 0
                /\ StatusIs(req[r].response[1], 500)
    /\ written = Cardinality({r \in DOMAIN req : RecordsOf(r) = 1})
    /\ Cardinality(DOMAIN table) = written

\* An attempt answered 200 with its one record in the store.
C2_Witness ==
    \E r \in DOMAIN req :
        /\ req[r].pc = "Completed"
        /\ StatusIs(req[r].response[1], 200)
        /\ RecordsOf(r) = 1
        /\ written = 1

\* ---------------------------------------------------------------- C8
\* The Matching Stage invocations of the Orchestrator that ran to their end
\* with neither a registration number nor a product name to search.
NothingToSearch ==
    {r \in Matched :
        /\ ~ValOf(r).killed
        /\ ~Truthy(BodyOf(ExtOf(r).response).nafdacNumber)
        /\ ~Truthy(BodyOf(ExtOf(r).response).productName)}

\* C8 as stated: with neither a number nor a name, the verdict has success
\* true.
C8_NothingToSearchIsSuccess ==
    \A r \in NothingToSearch :
        /\ Len(ValOf(r).puts) = 1
        /\ ValOf(r).puts[1].validationResult.success = TRUE

\* C8, amended: with neither a number nor a name the Matching Stage starts no
\* registry session and its verdict is {success: false, message: "No NAFDAC
\* number or product name provided"}; that verdict is not an error response:
\* it is put in the durable record and, the put done, returned with status
\* 200, which the Orchestrator returns as the final answer.  A verdict has
\* success false in this case only.
C8_NothingToSearchIsUnsuccessful ==
    /\ \A r \in NothingToSearch :
         LET verdict == [success |-> FALSE,
                         message |->
                           <<"No NAFDAC number or product name provided">>]
         IN  /\ ValOf(r).session = <<>>
             /\ Len(ValOf(r).puts) = 1
             /\ ValOf(r).puts[1].validationResult = verdict
             /\ req[r].pc = "Completed"
             /\ req[r].response = <<ValOf(r).response>>
             /\ ValOf(r).stored # <<>> =>
                  /\ StatusIs(ValOf(r).response, 200)
                  /\ BodyOf(ValOf(r).response).validationResult = verdict
                  /\ table[ValOf(r).stored[1].verificationId].validationResult
                       = verdict
    /\ \A r \in Matched :
         (~ValOf(r).killed
            /\ ValOf(r).puts # <<>>
            /\ ~ValOf(r).puts[1].validationResult.success)
           => r \in NothingToSearch

\* Recognition found no number and AI naming no name; the pipeline completed
\* with status 200 and the verdict of success false.
C8_Witness ==
    \E r \in NothingToSearch :
        /\ req[r].pc = "Completed"
        /\ StatusIs(req[r].response[1], 200)
        /\ ~BodyOf(req[r].response[1]).validationResult.success
        /\ ValOf(r).stored # <<>>

\* ---------------------------------------------------------------- C9
\* The Extraction Stage runs that returned, on a request with an image.
ExtractedWithImage ==
    {r \in Extracted : ~ExtOf(r).killed /\ Truthy(SentImage(r))}

HasRaised(calls, name) ==
    \E i \in DOMAIN calls : calls[i] = [name |-> name, raised |-> TRUE]

\* The base64 text the stage decodes for request r.
PayloadOf(r) ==
    IF \E i \in DOMAIN SentImage(r) : SentImage(r)[i] = ","
    THEN SplitCommaSecond(SentImage(r))
    ELSE SentImage(r)

\* C9 as stated: with a non-empty image the Extraction Stage returns an
\* ExtractionResult (status 200), never an error response.
C9_NeverAnErrorWithImage ==
    \A r \in ExtractedWithImage : StatusIs(ExtOf(r).response, 200)

\* C9, amended: with a non-empty image the Extraction Stage raises nothing
\* to its caller.  A failure of text recognition degrades to a result with
\* null number, null product name, null confidence and empty text; a failure
\* of AI naming to a null product name; both with status 200.  A failure of
\* the image decoding or of the blob write is not degraded: the stage answers
\* with status 500 and an error body, and has stored no blob.
C9_OnlyRecognitionAndNamingDegrade ==
    \A r \in ExtractedWithImage :
        LET o == ExtOf(r)
            fatal == \/ \E i \in DOMAIN PayloadOf(r) : PayloadOf(r)[i] = B64_CUT
                     \/ HasRaised(o.calls, "s3.put_object")
        IN  /\ StatusIs(o.response, 200) \/ StatusIs(o.response, 500)
            /\ StatusIs(o.response, 500) <=> fatal
            /\ StatusIs(o.response, 500) =>
                 /\ DOMAIN BodyOf(o.response) = {"error"}
                 /\ o.blobs = <<>>
            /\ StatusIs(o.response, 200) =>
                 /\ Len(o.blobs) = 1
                 /\ HasRaised(o.calls, "textract") =>
                      /\ BodyOf(o.response).nafdacNumber = None
                      /\ BodyOf(o.response).productName = None
                      /\ BodyOf(o.response).ocrConfidence = NoNumber
                      /\ BodyOf(o.response).extractedText = <<>>
                 /\ HasRaised(o.calls, "bedrock") =>
                      /\ BodyOf(o.response).nafdacNumber = None
                      /\ BodyOf(o.response).productName = None

\* AI naming raised, and the result is a 200 with a null product name.
C9_Witness ==
    \E r \in ExtractedWithImage :
        /\ HasRaised(ExtOf(r).calls, "bedrock")
        /\ StatusIs(ExtOf(r).response, 200)
        /\ BodyOf(ExtOf(r).response).productName = None

\* ---------------------------------------------------------------- C10
\* C10: a request whose image is missing or empty is answered by the
\* Extraction Stage with the 400 'Missing image data' error, and no blob
\* write, text-recognition call or AI call has happened for it; also when
\* the request carries an operator-supplied registration number.
C10_MissingImageRejectedBeforeProcessing ==
    \A r \in Extracted :
        ~Truthy(SentImage(r)) =>
            /\ ExtOf(r).calls = <<>>
            /\ ExtOf(r).blobs = <<>>
            /\ ~ExtOf(r).killed =>
                 /\ StatusIs(ExtOf(r).response, 400)
                 /\ BodyOf(ExtOf(r).response)
                      = [error |-> <<"Missing image data">>]
            /\ req[r].val = <<>>

\* A request with an operator-supplied number and no image was rejected.
C10_Witness ==
    \E r \in Extracted :
        /\ ~ExtOf(r).killed
        /\ "image" \notin DOMAIN SentBody(r)
        /\ Truthy(Get(SentBody(r), "nafdacNumber"))
        /\ StatusIs(ExtOf(r).response, 400)
        /\ ExtOf(r).calls = <<>>

\* ------------------------------------------- reading a /validate call
\* The body of the last call through /validate, and what it asked for.
CallBody == ParseBody(direct[1].event)
CallOut == direct[1].out
CallNumber == Get(CallBody, "nafdacNumber")
CallName == Get(CallBody, "productName")
CallTerm == IF Truthy(CallNumber) THEN CallNumber ELSE CallName
CallType == IF Truthy(CallNumber) THEN "NAFDAC number" ELSE "product name"

\* The call carried a JSON body with a verificationId and a timestamp.
CallIsComplete ==
    /\ direct # <<>>
    /\ direct[1].event.body # BadJson
    /\ Truthy(Get(CallBody, "verificationId"))
    /\ Truthy(Get(CallBody, "timestamp"))

\* The call had something to search.
CallSearches ==
    CallIsComplete /\ (Truthy(CallNumber) \/ Truthy(CallName))

\* The ways the browser session raises: starting the browser, loading the
\* page, looking up the search field, parsing a row.
SessionRaises ==
    direct[1].br.kind \in
        {"chrome_raises", "get_raises", "field_missing", "row_raises"}

\* ---------------------------------------------------------------- C3
\* C3 as stated: every invocation of the Matching Stage makes exactly one
\* durable write.
C3_EveryInvocationWritesOnce ==
    direct # <<>> => Len(CallOut.puts) = 1

\* C3, amended: every invocation of the Matching Stage that carries a
\* verificationId and a timestamp makes exactly one put of a record, whatever
\* the outcome of the registry search; the record has the identifier, the
\* timestamp, the image key, the verdict, the expiry 90 days out and, when
\* there is one, the registration number; unless the put itself raises, the
\* store then holds it.  An invocation without a verificationId or without a
\* timestamp, or whose body is not JSON, makes no put.
C3_CompleteInvocationWritesOnce ==
    direct # <<>> =>
        IF CallIsComplete
        THEN /\ Len(CallOut.puts) = 1
             /\ LET item == CallOut.puts[1]
                IN  /\ item.verificationId = CallBody.verificationId
                    /\ item.timestamp = CallBody.timestamp
                    /\ item.imageKey = Get(CallBody, "imageKey")
                    /\ "validationResult" \in DOMAIN item
                    /\ item.ttl = clock + 90 * 24 * 60 * 60
                    /\ IF Truthy(CallNumber)
                       THEN item.nafdacNumber = CallNumber
                       ELSE "nafdacNumber" \notin DOMAIN item
                    /\ IF direct[1].put_ok
                       THEN /\ CallOut.stored = <<item>>
                            /\ table[item.verificationId] = item
                       ELSE CallOut.stored = <<>>
        ELSE /\ CallOut.puts = <<>>
             /\ CallOut.stored = <<>>
             /\ ~StatusIs(CallOut.response, 200)

\* A complete invocation whose session fell back wrote its one record.
C3_Witness ==
    /\ CallSearches
    /\ SessionRaises
    /\ Len(CallOut.puts) = 1
    /\ CallOut.stored = CallOut.puts

\* ---------------------------------------------------------------- C4
\* C4 as stated (append-only): the store holds as many records as puts have
\* succeeded.
C4_AppendOnly ==
    Cardinality(DOMAIN table) = written

\* C4, amended: the durable store is keyed by verificationId.  A put with a
\* verificationId the store already holds replaces that record, so two
\* invocations with the same verification id leave one record, the later
\* one; a put never removes a record, and never modifies a record held under
\* another verificationId.
C4_PutReplacesByVerificationId ==
    [][ /\ DOMAIN table \subseteq DOMAIN table'
        /\ Cardinality(DOMAIN table') <= written'
        /\ \A k \in DOMAIN table' : table'[k].verificationId = k
        /\ (written' = written + 1) =>
             LET item == direct'[1].out.stored[1]
             IN  /\ table'[item.verificationId] = item
                 /\ DOMAIN table' = DOMAIN table \cup {item.verificationId}
                 /\ \A k \in DOMAIN table :
                      k # item.verificationId => table'[k] = table[k]
        /\ (written' = written) => table' = table
      ]_vars

\* Two puts with the same verificationId have succeeded; there is one
\* record.
C4_Witness ==
    /\ written = 2
    /\ Cardinality(DOMAIN table) = 1

\* ---------------------------------------------------------------- C5
\* C5: when the browser session raises (browser start, navigation,
\* search-field lookup, row parsing), the Matching Stage does not propagate
\* the exception: its verdict has success true and it puts the record with
\* that verdict; the put done, it answers 200 with the verdict.
C5_SessionFailureFallsBack ==
    (CallSearches /\ SessionRaises) =>
        /\ Len(CallOut.puts) = 1
        /\ CallOut.puts[1].validationResult.success = TRUE
        /\ direct[1].put_ok =>
             /\ StatusIs(CallOut.response, 200)
             /\ BodyOf(CallOut.response).validationResult.success = TRUE
             /\ BodyOf(CallOut.response).validationResult
                  = CallOut.puts[1].validationResult
             /\ table[CallBody.verificationId] = CallOut.puts[1]

\* Parsing a row raised in the middle of a session; the answer is 200 with
\* success true and the record is stored.
C5_Witness ==
    /\ CallSearches
    /\ direct[1].br.kind = "row_raises"
    /\ StatusIs(CallOut.response, 200)
    /\ BodyOf(CallOut.response).validationResult.success = TRUE
    /\ CallOut.stored # <<>>

\* ---------------------------------------------------------------- C6
\* C6 as stated: the fallback verdict of a failed session has found false,
\* for every search term.
C6_FallbackNeverFinds ==
    (CallSearches /\ SessionRaises) =>
        CallOut.puts[1].validationResult.found = FALSE

\* C6, amended: the fallback verdict of a failed session has found false for
\* every search term except the hard-coded "A4-101466", for which it has
\* found true and one canned match (Paracetamol 500mg Tablets) registered
\* under that number; otherwise it has found false, no matches and the
\* message "Product not found in NAFDAC Greenbook".  It names neither the
\* search term nor the search type.
C6_FallbackFindsOnlyTheCannedNumber ==
    (CallSearches /\ SessionRaises) =>
        LET verdict == CallOut.puts[1].validationResult
        IN  /\ verdict.found = (CallTerm = A4_101466)
            /\ verdict.nafdacNumber = CallTerm
            /\ "searchTerm" \notin DOMAIN verdict
            /\ "searchType" \notin DOMAIN verdict
            /\ IF verdict.found
               THEN /\ Len(verdict.results) = 1
                    /\ verdict.results[1].nrn = A4_101466
                    /\ verdict.results[1].product_name
                         = <<"Paracetamol 500mg Tablets">>
                    /\ "message" \notin DOMAIN verdict
               ELSE /\ "results" \notin DOMAIN verdict
                    /\ verdict.message
                         = <<"Product not found in NAFDAC Greenbook">>

\* The browser did not start for a search of "A4-101466": the stored verdict
\* is a match.
C6_Witness ==
    /\ CallSearches
    /\ direct[1].br.kind = "chrome_raises"
    /\ CallTerm = A4_101466
    /\ CallOut.stored # <<>>
    /\ CallOut.stored[1].validationResult.found = TRUE

\* ---------------------------------------------------------------- C7
\* C7: when the wait for the results table times out, the verdict has
\* success true and found false, names the search term and the search type,
\* and has the message "Product not found in NAFDAC Greenbook (searched by
\* <search type>)"; it is the verdict of the session, which quit the browser
\* once, and not the fallback's (also for the number the fallback knows);
\* the put done, it is returned with status 200.
C7_ResultsTimeoutIsNotFound ==
    (CallSearches /\ direct[1].br.kind = "results_timeout") =>
        LET verdict == [success |-> TRUE,
                        searchTerm |-> CallTerm,
                        searchType |-> CallType,
                        nafdacNumber |-> CallNumber,
                        found |-> FALSE,
                        message |->
                          <<"Product not found in NAFDAC Greenbook (searched by ",
                            CallType, ")">>]
        IN  /\ Len(CallOut.puts) = 1
            /\ CallOut.puts[1].validationResult = verdict
            /\ CallOut.session
                 = <<"Chrome", "get", CallOut.session[3], "send_keys", "sleep",
                     "wait_results", "quit">>
            /\ direct[1].put_ok =>
                 /\ StatusIs(CallOut.response, 200)
                 /\ BodyOf(CallOut.response).validationResult = verdict

\* The wait timed out on a search of "A4-101466" by number: answered 200,
\* not found.
C7_Witness ==
    /\ CallSearches
    /\ direct[1].br.kind = "results_timeout"
    /\ CallTerm = A4_101466
    /\ StatusIs(CallOut.response, 200)
    /\ BodyOf(CallOut.response).validationResult.found = FALSE
    /\ BodyOf(CallOut.response).validationResult.searchType = "NAFDAC number"

\* ------------------------------------- reading a /process-image call
\* The call of /process-image, once the Extraction Stage has run on it.
PiDone == direct # <<>> /\ direct[1].out # <<>>
PiBody == ParseBody(direct[1].event)
PiManual == Get(PiBody, "nafdacNumber")
PiOut == direct[1].out[1]
\* The ExtractionResult of a call answered 200.
PiResult == BodyOf(PiOut.response)
PiOk == PiDone /\ StatusIs(PiOut.response, 200)
\* The names of the external calls the run made.
PiCalled == {PiOut.calls[i].name : i \in DOMAIN PiOut.calls}
\* The recognized lines of the call, in scan order.
PiLines == SelectSeq(direct[1].ocr.blocks, LAMBDA b : b.BlockType = "LINE")

\* ---------------------------------------------------------------- C11
\* C11: when the request carries an operator-supplied registration number,
\* the Extraction Stage makes no text-recognition call and no AI call, and
\* its result has that number verbatim, with confidence null, raw text null
\* and productName null.
C11_ManualNumberSkipsRecognition ==
    (PiDone /\ Truthy(PiManual)) =>
        /\ "textract" \notin PiCalled
        /\ "bedrock" \notin PiCalled
        /\ direct[1].s3_ok => PiOk
        /\ PiOk =>
             /\ PiResult.nafdacNumber = PiManual
             /\ PiResult.ocrConfidence = NoNumber
             /\ PiResult.extractedText = None
             /\ PiResult.productName = None

\* A number not in normal form came back as it was, although recognition
\* would have found a number in the image.
C11_Witness ==
    /\ PiOk
    /\ PiManual = <<" ", "b", "4", " ", "-", "1", "6", "5", "0">>
    /\ PiResult.nafdacNumber = PiManual
    /\ PiLines # <<>>
    /\ PiLines[1].Text = LINE_SPACED
    /\ PiCalled = {"s3.put_object"}

\* ---------------------------------------------------------------- C12
\* Recognition ran on the call and answered.
PiRecognized ==
    /\ PiOk
    /\ ~Truthy(PiManual)
    /\ direct[1].ocr.kind = "blocks"

\* The places (pattern, first, last) where a line's text holds a substring
\* of the registration-number shape.
MatchesIn(text) ==
    LET starts == {a \in 1..Len(text) : WordBoundary(text, a - 1)}
        ends == {b \in 1..Len(text) : WordBoundary(text, b)}
    IN  { m \in (1..2) \X starts \X ends :
            m[2] <= m[3] /\ IsMatch(nafdac_patterns[m[1]], text, m[2], m[3]) }

\* The lines of the call that hold a number.
PiNumberLines == {i \in DOMAIN PiLines : MatchesIn(PiLines[i].Text) # {}}

\* A string without its whitespace.
WithoutSpaces(str) == SelectSeq(str, LAMBDA c : c \notin {" ", "\n", "\t"})

\* The number the code meets first among the matches ms of a line: the
\* leftmost match of the lettered pattern when there is one, else the
\* leftmost two-digit match.
FirstNumberOf(text, ms) ==
    LET p == IF \E m \in ms : m[1] = 1 THEN 1 ELSE 2
        m == CHOOSE m \in ms :
                 /\ m[1] = p
                 /\ \A o \in ms : o[1] = p => m[2] <= o[2]
    IN  WithoutSpaces(upper(SubSeq(text, m[2], m[3])))

\* The first of the lines `found` that has the confidence `top`.
FirstWithConfidence(lines, found, top) ==
    CHOOSE i \in found :
        /\ lines[i].Confidence = top
        /\ \A j \in found : lines[j].Confidence = top => i <= j

\* The highest confidence among the lines `found`.
TopConfidence(lines, found) ==
    CHOOSE c \in {lines[i].Confidence : i \in found} :
        \A i \in found : lines[i].Confidence <= c

\* The result is the first number of `text`, with the confidence `top`.
IsNumberOfLine(result, text, top) ==
    /\ result.ocrConfidence = <<top>>
    /\ result.nafdacNumber = FirstNumberOf(text, MatchesIn(text))
    /\ result.productName = None

\* The result is what the first line of highest confidence among `found`
\* gives, and null when there is none.
IsBestOfLines(result, lines, found) ==
    IF found = {}
    THEN /\ result.nafdacNumber = None
         /\ result.ocrConfidence = NoNumber
    ELSE IsNumberOfLine(result,
             lines[FirstWithConfidence(lines, found,
                                       TopConfidence(lines, found))].Text,
             TopConfidence(lines, found))

\* C12: among all pattern matches found across all recognized lines, the
\* Extraction Stage returns one of the line with the highest recognition
\* confidence, with that confidence; when several lines share the highest
\* confidence, the match comes from the first of them in line scan order
\* (within that line, it is the match the code meets first).  Without any
\* match the number and the confidence are null.
C12_HighestConfidenceFirstLineWins ==
    PiRecognized => IsBestOfLines(PiResult, PiLines, PiNumberLines)

\* The second line has the higher confidence and its number is returned.
C12_Witness ==
    /\ PiRecognized
    /\ Len(PiLines) = 2
    /\ PiLines[1].Text = LINE_TAB
    /\ PiLines[1].Confidence = 91
    /\ PiLines[2].Text = LINE_SPACED
    /\ PiLines[2].Confidence = 95
    /\ PiResult.nafdacNumber = B4_1650
    /\ PiResult.ocrConfidence = <<95>>

\* Two lines share the highest confidence and the number of the first is
\* returned.
C12_WitnessTie ==
    /\ PiRecognized
    /\ Len(PiLines) = 2
    /\ PiLines[1] = Line(LINE_TAB, 95)
    /\ PiLines[2] = Line(LINE_SPACED, 95)
    /\ PiResult.nafdacNumber = A4_101466

\* ---------------------------------------------------------------- C13
\* The numbers written in a line: each substring of the registration-number
\* shape, upper-cased, without the whitespace around its hyphen.
WrittenNumbers(text) ==
    { WithoutSpaces(upper(SubSeq(text, m[2], m[3]))) : m \in MatchesIn(text) }

\* One or two characters, one hyphen, four to six digits, nothing else.
IsCompactNumber(n) ==
    \E k \in 2..3 :
        /\ Len(n) \in (k + 1 + MIN_SUFFIX)..(k + 1 + MAX_SUFFIX)
        /\ n[k + 1] = "-"
        /\ \A j \in DOMAIN n : j # k + 1 => n[j] \notin {"-", " ", "\t", "\n"}

\* The number is written in one of the lines; when all the numbers written
\* in the lines are one and the same, it is that one.
IsWrittenIn(number, lines) ==
    /\ \E i \in DOMAIN lines : number \in WrittenNumbers(lines[i].Text)
    /\ \A i \in DOMAIN lines :
         /\ lines[i].Text = LINE_SPACED => B4_1650 \in WrittenNumbers(lines[i].Text)
         /\ lines[i].Text = LINE_TAB => A4_101466 \in WrittenNumbers(lines[i].Text)
    /\ (\A i \in DOMAIN lines : lines[i].Text \in {LINE_SPACED, LINE_GLUED, PANADOL})
         => number = B4_1650
    /\ (\A i \in DOMAIN lines : lines[i].Text \in {LINE_TAB, LINE_GLUED, PANADOL})
         => number = A4_101466

\* C13: when a recognized line contains a substring of the
\* registration-number shape, with optional whitespace around the hyphen,
\* the returned registration number is such a substring with the hyphen
\* normalized to a single '-' and no whitespace around it ('B4 - 1650'
\* gives 'B4-1650').
C13_ReturnedNumberIsNormalized ==
    PiRecognized =>
        IF PiResult.nafdacNumber = None
        THEN PiNumberLines = {}
        ELSE /\ IsCompactNumber(PiResult.nafdacNumber)
             /\ IsWrittenIn(PiResult.nafdacNumber, PiLines)

\* The line 'B4 - 1650' alone gives 'B4-1650'.
C13_Witness ==
    /\ PiRecognized
    /\ Len(PiLines) = 1
    /\ PiLines[1].Text = <<"B", "4", " ", "-", " ", "1", "6", "5", "0">>
    /\ PiResult.nafdacNumber = <<"B", "4", "-", "1", "6", "5", "0">>

\* ---------------------------------------------------------------- C14
\* Recognition found no number, the vision model was called (the decoded
\* image is not empty) and it answered with a text.
PiNamed ==
    /\ PiRecognized
    /\ PiNumberLines = {}
    /\ "bedrock" \in PiCalled
    /\ direct[1].ai.kind = "text"

PiReply == direct[1].ai.text

LISINOPRIL == <<"L", "i", "s", "i", "n", "o", "p", "r", "i", "l">>
LISINOPRIL_10MG_TABLETS ==
    LISINOPRIL \o <<" ", "1", "0", "m", "g", " ", "T", "a", "b", "l", "e", "t", "s">>

\* C14 as stated: when no registration number is found and the AI-naming
\* call succeeds, the returned productName contains no newline and has no
\* leading or trailing quote or whitespace, and for the output
\* 'Lisinopril 10mg Tablets\nTrust me' it is exactly 'Lisinopril'.
C14_FirstLineFullyTrimmed ==
    PiNamed =>
        /\ PiResult.productName # None =>
             /\ "\n" \notin {PiResult.productName[i] : i \in DOMAIN PiResult.productName}
             /\ Head(PiResult.productName) \notin Quotes \cup Whitespace
             /\ PiResult.productName[Len(PiResult.productName)] \notin Quotes \cup Whitespace
        /\ PiReply = REPLY_LISINOPRIL => PiResult.productName = LISINOPRIL

\* C14, amended: when no registration number is found and the AI-naming
\* call succeeds, the returned productName is the first line of the model
\* output, where the whole output was first trimmed of surrounding
\* whitespace and then of surrounding quotes: it contains no newline and
\* starts with no quote, it is the whole first line (dosage included:
\* 'Lisinopril 10mg Tablets'), it can end with a quote or with whitespace
\* when the output has several lines, it can start and end with whitespace
\* that stood inside the quotes, and it is null when nothing is left.
C14_TrimmedThenFirstLine ==
    PiNamed =>
        /\ PiResult.productName # None =>
             /\ "\n" \notin {PiResult.productName[i] : i \in DOMAIN PiResult.productName}
             /\ Head(PiResult.productName) \notin Quotes
        /\ PiReply = REPLY_LISINOPRIL
             => PiResult.productName = LISINOPRIL_10MG_TABLETS
        /\ PiReply = REPLY_QUOTED_FIRST_LINE
             => PiResult.productName = <<"P", "A", "N", "\"">>
        /\ PiReply = REPLY_QUOTED
             => PiResult.productName = <<"P", "A", "N">>
        /\ PiReply = REPLY_SPACE_IN_QUOTES
             => PiResult.productName = <<" ", "P", "A", "N", " ">>
        /\ PiReply = REPLY_ONLY_QUOTES
             => PiResult.productName = None

\* The Lisinopril reply on an image whose only line holds no number.
C14_Witness ==
    /\ PiNamed
    /\ Len(PiLines) = 1
    /\ PiLines[1].Text = PANADOL
    /\ PiReply = REPLY_LISINOPRIL
    /\ PiResult.productName = LISINOPRIL_10MG_TABLETS
    /\ "bedrock" \in PiCalled

\* ---------------------------------------------------------------- C15
\* The search field the session of the call looked up, if it came that far.
CallFields == {CallOut.session[i] : i \in DOMAIN CallOut.session}
                  \cap {"search_nrn", "search_product"}

\* The session of the call returned its own verdict (no fallback).
CallHasSessionVerdict ==
    /\ CallSearches
    /\ direct[1].br.kind \in {"table", "results_timeout"}
    /\ Len(CallOut.puts) = 1

\* C15: the Matching Stage searches by registration number whenever a
\* registration number is present, also when a product name is present too,
\* and by product name only when no registration number is present; the
\* searchTerm and searchType of the session's verdict reflect the mode
\* chosen.
C15_NumberSearchHasPriority ==
    /\ CallSearches =>
         /\ Truthy(CallNumber) => CallFields \subseteq {"search_nrn"}
         /\ ~Truthy(CallNumber) => CallFields \subseteq {"search_product"}
         /\ direct[1].br.kind \notin {"chrome_raises", "get_raises"}
              => CallFields # {}
    /\ CallHasSessionVerdict =>
         LET verdict == CallOut.puts[1].validationResult
         IN  IF Truthy(CallNumber)
             THEN /\ verdict.searchTerm = CallNumber
                  /\ verdict.searchType = "NAFDAC number"
             ELSE /\ verdict.searchTerm = CallName
                  /\ verdict.searchType = "product name"

\* A call with both a number and a product name searched by number.
C15_Witness ==
    /\ CallHasSessionVerdict
    /\ CallNumber = B4_1650
    /\ CallName = PANADOL
    /\ CallFields = {"search_nrn"}
    /\ CallOut.puts[1].validationResult.searchTerm = B4_1650
    /\ CallOut.puts[1].validationResult.searchType = "NAFDAC number"

\* A call with an empty number and a product name searched by name.
C15_WitnessByName ==
    /\ CallHasSessionVerdict
    /\ CallNumber = <<>>
    /\ CallFields = {"search_product"}
    /\ CallOut.puts[1].validationResult.searchTerm = PANADOL

\* ---------------------------------------------------------------- C16
\* The response notes a failure of the downstream invocation: status 500,
\* one of the Orchestrator's two messages, and the details.
NotesDownstreamFailure(response) ==
    /\ StatusIs(response, 500)
    /\ "body" \in DOMAIN response
    /\ response.body # BadJson
    /\ DOMAIN BodyOf(response) = {"error", "details"}
    /\ BodyOf(response).error \in
         { <<"NAFDAC validation failed">>,
           <<"Failed to invoke NAFDAC validator">> }

\* C16: when the Orchestrator's invocation of the Matching Stage cannot be
\* completed (the call raises, or the response reports a function error),
\* the Orchestrator returns an error response that notes the downstream
\* failure, which no extraction failure and no completed result looks like,
\* and it invokes the Matching Stage at most once per request.
C16_MatchingFailureIsDistinctAndNotRetried ==
    \A r \in DOMAIN req :
        /\ req[r].invokes <= 1
        /\ Len(req[r].val) <= req[r].invokes
        /\ req[r].pc = "MatchingFailed" =>
             /\ req[r].invokes = 1
             /\ NotesDownstreamFailure(req[r].response[1])
             /\ IF req[r].val = <<>>
                THEN BodyOf(req[r].response[1]).error
                         = <<"Failed to invoke NAFDAC validator">>
                ELSE /\ ValOf(r).killed
                     /\ BodyOf(req[r].response[1]).error
                          = <<"NAFDAC validation failed">>
                     /\ BodyOf(req[r].response[1]).details = ValOf(r).response
        /\ req[r].pc \in Terminal \ {"MatchingFailed"} =>
             ~NotesDownstreamFailure(req[r].response[1])
        /\ (req[r].val # <<>> /\ ValOf(r).killed) => req[r].pc = "MatchingFailed"

\* The Matching Stage was killed after its durable write; the answer is
\* 'NAFDAC validation failed' after one invocation.
C16_Witness ==
    \E r \in DOMAIN req :
        /\ req[r].pc = "MatchingFailed"
        /\ req[r].val # <<>>
        /\ ValOf(r).killed
        /\ Len(ValOf(r).stored) = 1
        /\ req[r].invokes = 1
        /\ BodyOf(req[r].response[1]).error = <<"NAFDAC validation failed">>

\* The invoke call raised; the answer is 'Failed to invoke NAFDAC validator'.
C16_WitnessInvokeRaised ==
    \E r \in DOMAIN req :
        /\ req[r].pc = "MatchingFailed"
        /\ req[r].val = <<>>
        /\ BodyOf(req[r].response[1]).error
             = <<"Failed to invoke NAFDAC validator">>

\* ---------------------------------------------------------------- C17
\* Both stage invocations of request r completed without transport failure.
BothStagesReturned(r) ==
    /\ req[r].ext # <<>> /\ ~ExtOf(r).killed
    /\ req[r].val # <<>> /\ ~ValOf(r).killed

\* C17: when both stage invocations complete without transport failure, the
\* Orchestrator's response to the caller is exactly the Matching Stage's
\* response (status, headers and body), whatever its status.
C17_MatchingResponseIsReturnedVerbatim ==
    \A r \in DOMAIN req :
        /\ BothStagesReturned(r) =>
             /\ req[r].pc = "Completed"
             /\ req[r].response = <<ValOf(r).response>>
             /\ DOMAIN req[r].response[1] = {"statusCode", "headers", "body"}
             /\ req[r].response[1].headers = CorsHeaders
        /\ req[r].pc = "Completed" => BothStagesReturned(r)

\* A completed request whose answer is the Matching Stage's 200 response
\* with its verdict.
C17_Witness ==
    \E r \in DOMAIN req :
        /\ BothStagesReturned(r)
        /\ StatusIs(req[r].response[1], 200)
        /\ StatusIs(ValOf(r).response, 200)
        /\ BodyOf(req[r].response[1]).validationResult
             = ValOf(r).puts[1].validationResult
        /\ "found" \in DOMAIN BodyOf(req[r].response[1]).validationResult
        /\ BodyOf(req[r].response[1]).validationResult.found

\* ---------------------------------------------------------------- C18
\* The kinds of response.
IsCompletedResult(response) ==
    /\ StatusIs(response, 200)
    /\ {"verificationId", "timestamp", "imageKey", "nafdacNumber",
        "validationResult"} \subseteq DOMAIN BodyOf(response)

IsInvalidInput(response) ==
    /\ StatusIs(response, 400)
    /\ BodyOf(response) = [error |-> <<"Missing image data">>]

\* A 500 response whose body is only the text of an exception.
IsExceptionText(response) ==
    /\ StatusIs(response, 500)
    /\ DOMAIN BodyOf(response) = {"error"}

\* The payload of a function error: no statusCode, no body.
IsFunctionErrorPayload(response) ==
    DOMAIN response = {"errorMessage"}

\* The requests that were answered.
Answered == {r \in DOMAIN req : req[r].pc \in Terminal}

\* C18 as stated: every response of the Orchestrator is a Completed result
\* carrying all of verificationId, timestamp, imageKey, registrationNumber
\* and validationResult, or an InvalidInput failure from extraction, or a
\* failure noting that a downstream invocation failed (the answer to a
\* raising invocation of the Extraction Stage is counted as one).
C18_CompletedOrOneOfTwoFailures ==
    \A r \in Answered :
        \/ IsCompletedResult(req[r].response[1])
        \/ IsInvalidInput(req[r].response[1])
        \/ NotesDownstreamFailure(req[r].response[1])
        \/ (req[r].pc = "WorkflowError" /\ ~BodyRaises(req[r].event[1]))

\* C18, amended: every response of the Orchestrator is one of: a Completed
\* result carrying all of verificationId, timestamp, imageKey,
\* registrationNumber and validationResult; the Extraction Stage's
\* InvalidInput failure (400); a failure noting that the invocation of the
\* Matching Stage failed; a 500 whose body is only the text of an exception
\* (from the Orchestrator for an unparsable body or a raising invocation of
\* the Extraction Stage, from the Extraction Stage for a failed decoding or
\* blob write, from the Matching Stage for a failed durable write); or the
\* function-error payload of a killed Extraction Stage, returned as it is.
\* A request not yet answered has no response.
C18_ResponseKinds ==
    \A r \in DOMAIN req :
        /\ r \notin Answered => req[r].response = <<>>
        /\ r \in Answered =>
             /\ Len(req[r].response) = 1
             /\ CASE req[r].pc = "Completed" ->
                       \/ /\ IsCompletedResult(req[r].response[1])
                          /\ Len(ValOf(r).stored) = 1
                       \/ /\ IsExceptionText(req[r].response[1])
                          /\ Len(ValOf(r).puts) = 1
                          /\ ValOf(r).stored = <<>>
                  [] req[r].pc = "ExtractionFailed" ->
                       \/ /\ IsInvalidInput(req[r].response[1])
                          /\ ~Truthy(SentImage(r))
                       \/ /\ IsExceptionText(req[r].response[1])
                          /\ Truthy(SentImage(r))
                          /\ ~ExtOf(r).killed
                          /\ ExtOf(r).blobs = <<>>
                       \/ /\ IsFunctionErrorPayload(req[r].response[1])
                          /\ ExtOf(r).killed
                  [] req[r].pc = "MatchingFailed" ->
                       NotesDownstreamFailure(req[r].response[1])
                  [] req[r].pc = "WorkflowError" ->
                       /\ IsExceptionText(req[r].response[1])
                       /\ req[r].ext = <<>>

\* The Extraction Stage was killed and the caller got the function-error
\* payload, which has no statusCode.
C18_Witness ==
    \E r \in Answered :
        /\ req[r].pc = "ExtractionFailed"
        /\ ExtOf(r).killed
        /\ "statusCode" \notin DOMAIN req[r].response[1]
        /\ req[r].response[1] = [errorMessage |-> <<"Task timed out">>]

\* The Matching Stage's durable write raised and its 500 is the final
\* answer of a Completed request.
C18_WitnessWriteFailed ==
    \E r \in Answered :
        /\ req[r].pc = "Completed"
        /\ IsExceptionText(req[r].response[1])
        /\ ValOf(r).stored = <<>>

\* ---------------------------------------------------------------- C19
\* The steps of the pipeline, an arriving request being Received.
PipelineSteps ==
    { <<"Idle", "Received">>,
      <<"Received", "Extracting">>,
      <<"Extracting", "Extracted">>,
      <<"Extracted", "Matching">>,
      <<"Matching", "Completed">> }

\* The error exits from the two stage calls.
StageErrorExits ==
    { <<"Extracting", "ExtractionFailed">>,
      <<"Extracting", "WorkflowError">>,
      <<"Matching", "MatchingFailed">> }

\* Request r has a stage call in flight only in Extracting and in Matching,
\* one at a time: the first has not ended in Extracting, and in Matching the
\* first has returned 200 and the second has not ended.
OneCallAtATime(r) ==
    /\ req[r].pc \in {"Idle", "Received", "Extracting"} =>
         req[r].ext = <<>> /\ req[r].val = <<>> /\ req[r].invokes = 0
    /\ req[r].pc \in {"Extracted", "Matching"} =>
         /\ req[r].ext # <<>>
         /\ ~ExtOf(r).killed
         /\ StatusIs(ExtOf(r).response, 200)
         /\ req[r].val = <<>>
         /\ req[r].invokes = (IF req[r].pc = "Matching" THEN 1 ELSE 0)
    /\ req[r].val # <<>> => req[r].pc \in {"Completed", "MatchingFailed"}

\* C19 as stated: within one request the pipeline is strictly sequential
\* and never goes back: the states follow Received, Extracting, Extracted,
\* Matching, Completed, with error exits only from Extracting and Matching,
\* and the Matching Stage call starts only after the Extraction Stage call
\* has returned.
C19_ErrorExitsOnlyFromStageCalls ==
    [][\A r \in DOMAIN req :
          /\ OneCallAtATime(r)
          /\ req'[r].pc # req[r].pc =>
               <<req[r].pc, req'[r].pc>> \in PipelineSteps \cup StageErrorExits
      ]_vars

\* C19, amended: within one request the pipeline is strictly sequential and
\* never goes back: the states follow Received, Extracting, Extracted,
\* Matching, Completed, the Matching Stage call starts only after the
\* Extraction Stage call has returned, and no two stage calls are in flight;
\* the error exits are from Extracting and Matching, and one more from the
\* reception of the request: a request whose body cannot be parsed is
\* answered with an error before any stage is invoked.
C19_SequentialWithErrorExitAtReception ==
    [][\A r \in DOMAIN req :
          /\ OneCallAtATime(r)
          /\ req'[r].pc # req[r].pc =>
               \/ <<req[r].pc, req'[r].pc>> \in PipelineSteps \cup StageErrorExits
               \/ /\ <<req[r].pc, req'[r].pc>> = <<"Idle", "WorkflowError">>
                  /\ BodyRaises(req'[r].event[1])
          /\ req[r].pc \in Terminal => req'[r] = req[r]
      ]_vars

\* The Matching Stage call is in flight: the Extraction Stage call has
\* returned 200 and nothing has come back from the Matching Stage.
C19_Witness ==
    \E r \in DOMAIN req :
        /\ req[r].pc = "Matching"
        /\ StatusIs(ExtOf(r).response, 200)
        /\ req[r].val = <<>>
        /\ req[r].invokes = 1

\* A request with an unparsable body was answered without any stage call.
C19_WitnessUnparsableBody ==
    \E r \in DOMAIN req :
        /\ req[r].pc = "WorkflowError"
        /\ BodyRaises(req[r].event[1])
        /\ req[r].ext = <<>>

\* ---------------------------------------------------------------- C20
\* The call put a record for a request without registration number.
CallStoredWithoutNumber ==
    /\ CallIsComplete
    /\ ~Truthy(CallNumber)
    /\ Len(CallOut.stored) = 1

\* C20: a VerificationRecord written for a request with no registration
\* number (null or empty) has no registration-number attribute at all, so
\* it is not in the secondary index; a record written for a request with a
\* number has that number, and no record in the store has a null, empty or
\* other placeholder registration number.
C20_NoNumberNoAttribute ==
    /\ CallStoredWithoutNumber =>
         /\ "nafdacNumber" \notin DOMAIN CallOut.stored[1]
         /\ CallOut.stored[1].verificationId \in DOMAIN table
         /\ table[CallOut.stored[1].verificationId] = CallOut.stored[1]
         /\ CallOut.stored[1].verificationId \notin NafdacNumberIndex(table)
    /\ (CallIsComplete /\ Truthy(CallNumber) /\ Len(CallOut.stored) = 1) =>
         /\ CallOut.stored[1].nafdacNumber = CallNumber
         /\ CallOut.stored[1].verificationId \in NafdacNumberIndex(table)
    /\ \A k \in NafdacNumberIndex(table) :
         /\ table[k].nafdacNumber \notin {None, <<>>}
         /\ table[k].nafdacNumber \in {A4_101466, B4_1650}

\* A record was put for a request whose registration number is empty and
\* whose product name was searched.
C20_Witness ==
    /\ CallStoredWithoutNumber
    /\ CallNumber = <<>>
    /\ CallName = PANADOL
    /\ DOMAIN CallOut.stored[1]
         = {"verificationId", "timestamp", "imageKey", "validationResult",
            "ttl"}
    /\ NafdacNumberIndex(table) = {}

\* A record was put for a request that has no registration number at all.
C20_WitnessNull ==
    /\ CallStoredWithoutNumber
    /\ CallNumber = None
    /\ "nafdacNumber" \notin DOMAIN table[CallOut.stored[1].verificationId]

\* ---------------------------------------------------------------- C21
\* The requests whose Extraction Stage answered 200.
ExtractedOk == {r \in Extracted : StatusIs(ExtOf(r).response, 200)}

\* The blobs and the records the request r has written.
BlobsOf(r) == IF req[r].ext = <<>> THEN <<>> ELSE ExtOf(r).blobs
ItemsOf(r) == IF req[r].val = <<>> THEN <<>> ELSE ValOf(r).stored

\* C21: for any interleaving of two concurrent verification requests, each
\* request has its own generated identifier and its own blob key, and the
\* blob and the durable record of one request are never overwritten or
\* altered by the other request: the stores hold, for each request, what
\* that request wrote, and nothing else.
C21_ConcurrentRequestsAreIsolated ==
    /\ \A r \in ExtractedOk, q \in ExtractedOk :
         r # q =>
           /\ BodyOf(ExtOf(r).response).verificationId
                # BodyOf(ExtOf(q).response).verificationId
           /\ BodyOf(ExtOf(r).response).imageKey
                # BodyOf(ExtOf(q).response).imageKey
    /\ \A r \in DOMAIN req :
         /\ \A i \in DOMAIN BlobsOf(r) :
              /\ BlobsOf(r)[i].Key \in DOMAIN bucket
              /\ bucket[BlobsOf(r)[i].Key] = BlobsOf(r)[i].Body
         /\ \A i \in DOMAIN ItemsOf(r) :
              /\ ItemsOf(r)[i].verificationId \in DOMAIN table
              /\ table[ItemsOf(r)[i].verificationId] = ItemsOf(r)[i]
    /\ Cardinality(DOMAIN bucket)
         = Cardinality({r \in DOMAIN req : BlobsOf(r) # <<>>})
    /\ Cardinality(DOMAIN table)
         = Cardinality({r \in DOMAIN req : ItemsOf(r) # <<>>})

\* Two requests with different images were extracted at the same clock tick
\* while both were in flight, and both have their blob and their record.
C21_Witness ==
    /\ req[1].pc = "Completed" /\ req[2].pc = "Completed"
    /\ BlobsOf(1) # <<>> /\ BlobsOf(2) # <<>>
    /\ ItemsOf(1) # <<>> /\ ItemsOf(2) # <<>>
    /\ BodyOf(ExtOf(1).response).timestamp = BodyOf(ExtOf(2).response).timestamp
    /\ BlobsOf(1)[1].Body # BlobsOf(2)[1].Body
    /\ Cardinality(DOMAIN bucket) = 2
    /\ Cardinality(DOMAIN table) = 2

\* ---------------------------------------------------------------- C22
\* The results table appeared in the session of the call, and the call put
\* its record.
CallSawTable ==
    /\ CallSearches
    /\ direct[1].br.kind = "table"
    /\ Len(CallOut.puts) = 1

\* The rows of the page that have ten or more columns, by their place.
TenColumnRows(rows) == {i \in DOMAIN rows : Len(rows[i]) >= 10}

\* The place in the page of the k-th row of ten or more columns.
PlaceOf(rows, k) ==
    CHOOSE i \in TenColumnRows(rows) :
        Cardinality({j \in TenColumnRows(rows) : j <= i}) = k

\* The verdict is the one for the rows of the page.
IsVerdictOfRows(verdict, rows) ==
    /\ verdict.success = TRUE
    /\ verdict.found = (TenColumnRows(rows) # {})
    /\ IF TenColumnRows(rows) # {}
       THEN /\ "message" \notin DOMAIN verdict
            /\ Len(verdict.results) = Cardinality(TenColumnRows(rows))
            /\ \A k \in DOMAIN verdict.results :
                 /\ verdict.results[k].product_name
                      = <<rows[PlaceOf(rows, k)][1][2]>>
                 /\ verdict.results[k].nrn = <<rows[PlaceOf(rows, k)][4][2]>>
                 /\ verdict.results[k].status = <<rows[PlaceOf(rows, k)][10][2]>>
       ELSE /\ "results" \notin DOMAIN verdict
            /\ "message" \in DOMAIN verdict

\* C22: when the results table appears, the verdict has found=true exactly
\* when at least one row has ten or more columns; the matches are those
\* rows in page order, rows with fewer than ten columns are skipped without
\* causing an error, and when no row qualifies the verdict is found=false
\* with success=true.
C22_MatchesAreTheTenColumnRows ==
    CallSawTable =>
        /\ IsVerdictOfRows(CallOut.puts[1].validationResult, direct[1].br.rows)
        /\ direct[1].put_ok =>
             /\ StatusIs(CallOut.response, 200)
             /\ BodyOf(CallOut.response).validationResult
                  = CallOut.puts[1].validationResult

\* A page of three rows, the second with three columns: the two matches are
\* the first and the third row, in that order.
C22_Witness ==
    /\ CallSawTable
    /\ Len(direct[1].br.rows) = 3
    /\ Len(direct[1].br.rows[2]) = 3
    /\ CallOut.puts[1].validationResult.found = TRUE
    /\ Len(CallOut.puts[1].validationResult.results) = 2
    /\ CallOut.puts[1].validationResult.results[1].product_name = <<"p">>
    /\ CallOut.puts[1].validationResult.results[2].product_name = <<"q">>

\* A page whose only row has three columns: found is false, success true.
C22_WitnessNoRowQualifies ==
    /\ CallSawTable
    /\ TenColumnRows(direct[1].br.rows) = {}
    /\ CallOut.puts[1].validationResult.found = FALSE
    /\ CallOut.puts[1].validationResult.success = TRUE

\* ---------------------------------------------------------------- C23
\* The image sent with the call, and the places of the calls of one
\* service in the run.
PiImage == GetOr(PiBody, "image", <<>>)
PiCallsOf(name) == {i \in DOMAIN PiOut.calls : PiOut.calls[i].name = name}

\* At most one text-recognition call, after the blob write, and at most one
\* AI-model call, after a text recognition that completed without finding
\* any pattern match.
RecognitionThenNaming ==
    /\ Cardinality(PiCallsOf("textract")) <= 1
    /\ Cardinality(PiCallsOf("bedrock")) <= 1
    /\ \A i \in PiCallsOf("textract") :
         /\ i = 2
         /\ PiOut.calls[1] = [name |-> "s3.put_object", raised |-> FALSE]
    /\ \A i \in PiCallsOf("bedrock") :
         /\ i = 3
         /\ PiOut.calls[2] = [name |-> "textract", raised |-> FALSE]
         /\ PiNumberLines = {}

\* C23 as stated: for every Extraction Stage invocation with a non-empty
\* image, exactly one blob write happens and it precedes any
\* text-recognition call; at most one text-recognition call happens; and at
\* most one AI-model call happens, only after text recognition has completed
\* without finding any pattern match.
C23_AlwaysOneBlobWrite ==
    (PiDone /\ Truthy(PiImage)) =>
        /\ Cardinality(PiCallsOf("s3.put_object")) = 1
        /\ RecognitionThenNaming

\* C23, amended: for every Extraction Stage invocation with a non-empty
\* image that can be decoded, exactly one blob write is attempted and it
\* precedes any text-recognition call; when the image cannot be decoded no
\* blob write and no other call happens, and when the blob write fails no
\* other call happens; at most one text-recognition call happens; and at
\* most one AI-model call happens, only after text recognition has completed
\* without finding any pattern match.
C23_OneBlobWriteOnceDecoded ==
    (PiDone /\ Truthy(PiImage)) =>
        /\ IF PiImage = CutImage
           THEN /\ PiOut.calls = <<>>
                /\ PiOut.blobs = <<>>
                /\ StatusIs(PiOut.response, 500)
           ELSE /\ PiCallsOf("s3.put_object") = {1}
                /\ IF PiOut.calls[1].raised
                   THEN /\ Len(PiOut.calls) = 1
                        /\ PiOut.blobs = <<>>
                        /\ StatusIs(PiOut.response, 500)
                   ELSE /\ Len(PiOut.blobs) = 1
                        /\ PiOk
                        /\ ~Truthy(PiManual) => PiCallsOf("textract") = {2}
        /\ RecognitionThenNaming

\* The blob write, then text recognition finding no number, then the AI
\* model, each once.
C23_Witness ==
    /\ PiDone
    /\ PiImage = PlainImage
    /\ PiLines # <<>>
    /\ PiOut.calls = << [name |-> "s3.put_object", raised |-> FALSE],
                        [name |-> "textract", raised |-> FALSE],
                        [name |-> "bedrock", raised |-> FALSE] >>
    /\ Len(PiOut.blobs) = 1

\* An image that cannot be decoded: no blob write.
C23_WitnessNotDecoded ==
    /\ PiDone
    /\ PiImage = CutImage
    /\ PiOut.calls = <<>>

\* ---------------------------------------------------------------- C24
\* C24: in every ExtractionResult, productName is non-null only when the
\* registration number is null, and the confidence is non-null only when
\* the registration number was produced by a pattern match on recognized
\* text: never for an operator-supplied number and never when no number was
\* found.
C24_NameOnlyWithoutNumberConfidenceOnlyWithMatch ==
    PiOk =>
        /\ PiResult.productName # None => PiResult.nafdacNumber = None
        /\ PiResult.ocrConfidence # NoNumber =>
             /\ ~Truthy(PiManual)
             /\ PiResult.nafdacNumber # None
             /\ "textract" \in PiCalled
             /\ \E i \in PiNumberLines :
                  PiResult.ocrConfidence = <<PiLines[i].Confidence>>
        /\ Truthy(PiManual) => PiResult.ocrConfidence = NoNumber
        /\ PiResult.nafdacNumber = None => PiResult.ocrConfidence = NoNumber

\* A result with a product name: the number and the confidence are null.
C24_Witness ==
    /\ PiOk
    /\ PiResult.productName = <<"P", "A", "N">>
    /\ PiResult.nafdacNumber = None
    /\ PiResult.ocrConfidence = NoNumber

\* A result with a confidence: the number is a pattern match of a line.
C24_WitnessConfidence ==
    /\ PiOk
    /\ PiResult.ocrConfidence = <<91>>
    /\ PiResult.nafdacNumber = A4_101466
    /\ PiResult.productName = None

\* ---------------------------------------------------------------- C25
\* The request r was answered with a Completed result.
HasCompletedResult(r) ==
    /\ req[r].pc = "Completed"
    /\ StatusIs(req[r].response[1], 200)

\* The result `out` and the record `item` carry what the Extraction Stage
\* generated (its result `ext`), with the key made of the two values.
CarriesGenerated(ext, out, item) ==
    /\ out.verificationId = ext.verificationId
    /\ out.timestamp = ext.timestamp
    /\ out.imageKey = ext.imageKey
    /\ out.imageKey
         = <<"images/">> \o ext.timestamp \o <<"_">> \o ext.verificationId
             \o <<".jpg">>
    /\ item.verificationId = ext.verificationId
    /\ item.timestamp = ext.timestamp
    /\ item.imageKey = ext.imageKey
    /\ item.validationResult = out.validationResult

\* C25: on a Completed request, the verificationId, timestamp and imageKey
\* generated by the Extraction Stage are the ones in the Orchestrator's
\* response and in the durable record, the imageKey is
\* images/{timestamp}_{verificationId}.jpg for those same two values (and
\* the blob is there), and the validationResult in the response equals the
\* validationResult stored in the record.
C25_CompletedResultMatchesRecord ==
    \A r \in DOMAIN req :
        HasCompletedResult(r) =>
            /\ BodyOf(req[r].response[1]).verificationId \in DOMAIN table
            /\ BodyOf(req[r].response[1]).imageKey \in DOMAIN bucket
            /\ CarriesGenerated(
                   BodyOf(ExtOf(r).response),
                   BodyOf(req[r].response[1]),
                   table[BodyOf(req[r].response[1]).verificationId])

\* A Completed request with a match: its record is in the store under the
\* generated identifier, and its blob under the generated key.
C25_Witness ==
    \E r \in DOMAIN req :
        /\ HasCompletedResult(r)
        /\ BodyOf(req[r].response[1]).verificationId = <<"u", "1">>
        /\ BodyOf(req[r].response[1]).imageKey
             = <<"images/", "T", "0", "_", "u", "1", ".jpg">>
        /\ <<"u", "1">> \in DOMAIN table
        /\ "found" \in DOMAIN table[<<"u", "1">>].validationResult
        /\ table[<<"u", "1">>].validationResult.found = TRUE
        /\ BodyOf(req[r].response[1]).validationResult
             = table[<<"u", "1">>].validationResult

\* ---------------------------------------------------------------- C26
\* The verdict the call put in the store, and the path that produced it.
CallVerdict == CallOut.puts[1].validationResult
CallPut == CallIsComplete /\ Len(CallOut.puts) = 1

\* A non-empty list of matches exactly when found is true, and a message
\* whenever found is not true.
MatchesIffFound(verdict) ==
    /\ ("found" \in DOMAIN verdict /\ verdict.found = TRUE)
         <=> ("results" \in DOMAIN verdict /\ verdict.results # <<>>)
    /\ ~("found" \in DOMAIN verdict /\ verdict.found = TRUE)
         => "message" \in DOMAIN verdict

\* C26 as stated: every ValidationResult returned and persisted by the
\* Matching Stage carries success, found, searchTerm and searchType on
\* every path, a non-empty list of matches exactly when found=true, and a
\* message whenever found is not true.
C26_VerdictIsCompleteOnEveryPath ==
    CallPut =>
        /\ {"success", "found", "searchTerm", "searchType"}
             \subseteq DOMAIN CallVerdict
        /\ MatchesIffFound(CallVerdict)

\* C26, amended: every ValidationResult returned and persisted by the
\* Matching Stage carries success on every path; it carries found on every
\* path but nothing to search; it carries searchTerm and searchType when
\* the session itself gives the verdict (match, no match, timeout) and
\* neither of them on the fallback and nothing-to-search paths; it carries
\* a non-empty list of matches exactly when found=true, and a message
\* whenever found is not true.
C26_VerdictFieldsByPath ==
    CallPut =>
        /\ "success" \in DOMAIN CallVerdict
        /\ MatchesIffFound(CallVerdict)
        /\ ~CallSearches =>
             DOMAIN CallVerdict = {"success", "message"}
        /\ (CallSearches /\ SessionRaises) =>
             /\ "found" \in DOMAIN CallVerdict
             /\ DOMAIN CallVerdict \cap {"searchTerm", "searchType"} = {}
        /\ (CallSearches /\ ~SessionRaises) =>
             {"found", "searchTerm", "searchType"} \subseteq DOMAIN CallVerdict
        /\ direct[1].put_ok =>
             BodyOf(CallOut.response).validationResult = CallVerdict

\* The session raised and the fallback verdict, which has neither
\* searchTerm nor searchType, was put and returned.
C26_Witness ==
    /\ CallPut
    /\ CallSearches
    /\ SessionRaises
    /\ direct[1].put_ok
    /\ DOMAIN CallVerdict = {"success", "nafdacNumber", "found", "message"}
    /\ BodyOf(CallOut.response).validationResult = CallVerdict

\* ---------------------------------------------------------------- C27
\* text[i..e] is delimited: no word character just before it or after it.
Delimited(text, i, e) ==
    /\ i = 1 \/ ~IsWord(text[i - 1])
    /\ e = Len(text) \/ ~IsWord(text[e + 1])

\* text[i..e] has the registration-number shape, its letter taken from
\* `letters`: a letter and one or two digits, or two digits; whitespace, a
\* hyphen, whitespace; four to six digits.
HasShapeAt(text, i, e, letters) ==
    \E k \in 2..3, a \in i..e, b \in i..e :
        /\ i + k <= a /\ a < b
        /\ e - b + 1 \in MIN_SUFFIX..MAX_SUFFIX
        /\ \/ text[i] \in letters
           \/ k = 2 /\ IsDigit(text[i])
        /\ \A j \in (i + 1)..(i + k - 1) : IsDigit(text[j])
        /\ \A j \in (i + k)..(a - 1) : text[j] \in {" ", "\t", "\n"}
        /\ text[a] = "-"
        /\ \A j \in (a + 1)..(b - 1) : text[j] \in {" ", "\t", "\n"}
        /\ \A j \in b..e : IsDigit(text[j])

\* The delimited substrings of that shape in a text, whitespace removed.
ShapesIn(text, letters) ==
    { WithoutSpaces(SubSeq(text, m[1], m[2])) :
        m \in { n \in (1..Len(text)) \X (1..Len(text)) :
                  /\ n[1] < n[2]
                  /\ Delimited(text, n[1], n[2])
                  /\ HasShapeAt(text, n[1], n[2], letters) } }

\* The shapes of all the lines of a call.
ShapesInLines(lines, letters) ==
    UNION { ShapesIn(lines[i].Text, letters) : i \in DOMAIN lines }

\* The result has a number exactly when `shapes` is not empty, and then it
\* is one of them.
NumberFromShapes(result, shapes) ==
    /\ result.nafdacNumber # None <=> shapes # {}
    /\ result.nafdacNumber # None => result.nafdacNumber \in shapes

UpperLetters == Range(UpperCase)
AnyLetters == Range(UpperCase) \cup Range(LowerCase)

\* C27 as stated: a recognized line yields a candidate exactly when it
\* contains, delimited by word boundaries, one uppercase letter and one or
\* two digits (or two digits), a hyphen with optional whitespace around it
\* and four to six digits; a lowercase prefix or a longer token yields none.
C27_CandidatesAreUppercaseShapes ==
    PiRecognized =>
        NumberFromShapes(PiResult, ShapesInLines(PiLines, UpperLetters))

\* C27, amended: a recognized line yields a candidate exactly when it
\* contains, delimited by word boundaries, one letter of either case and
\* one or two digits (or two digits), a hyphen with optional whitespace
\* around it and four to six digits, and the candidate has the letter in
\* upper case; a line with no such substring, including one whose candidate
\* is part of a longer alphanumeric token, yields no candidate.
C27_CandidatesAreShapesOfEitherCase ==
    PiRecognized =>
        NumberFromShapes(PiResult,
            { upper(n) : n \in ShapesInLines(PiLines, AnyLetters) })

\* The only line read has a lettered number in lower case, which is the
\* result in upper case.
C27_Witness ==
    /\ PiRecognized
    /\ Len(PiLines) = 1
    /\ PiLines[1].Text = LINE_TWO
    /\ PiResult.nafdacNumber = <<"A", "7", "-", "2", "2", "2", "2", "2">>

\* The only line read has the shape inside a longer token: no number.
C27_WitnessLongerToken ==
    /\ PiRecognized
    /\ Len(PiLines) = 1
    /\ PiLines[1].Text = LINE_GLUED
    /\ PiResult.nafdacNumber = None

\* ---------------------------------------------------------------- C28
\* How many times a call occurs in a session.
TimesIn(session, call) ==
    Cardinality({i \in DOMAIN session : session[i] = call})

\* A session that was created: the browser is started once, first of all,
\* and closed once, last of all.
CreatedOnceClosedLast(session) ==
    /\ TimesIn(session, "Chrome") = 1
    /\ session[1] = "Chrome"
    /\ TimesIn(session, "quit") = 1
    /\ session[Len(session)] = "quit"

\* C28: once the browser session has been created, it is closed on every
\* path out of the registry search (matches found, no rows parsed, results
\* timeout, any exception) before the Matching Stage returns its verdict,
\* and at most one browser session is created per invocation: the fallback
\* does not run the session again.
C28_SessionCreatedOnceAndClosed ==
    direct # <<>> =>
        /\ TimesIn(CallOut.session, "Chrome") <= 1
        /\ CallOut.session # <<>> => CreatedOnceClosedLast(CallOut.session)
        /\ CallOut.session # <<>> <=>
             (CallSearches /\ direct[1].br.kind # "chrome_raises")
        /\ (CallSearches /\ SessionRaises) =>
             CallVerdict = get_dummy_validation_result(CallTerm)

\* A row raised while it was parsed: the session was closed and the
\* fallback verdict given, without a second session.
C28_Witness ==
    /\ CallSearches
    /\ direct[1].br.kind = "row_raises"
    /\ CreatedOnceClosedLast(CallOut.session)
    /\ Len(CallOut.session) = 8
    /\ "found" \in DOMAIN CallVerdict
    /\ "searchTerm" \notin DOMAIN CallVerdict

\* The results never came: the session was closed and "not found" given.
C28_WitnessTimeout ==
    /\ CallSearches
    /\ direct[1].br.kind = "results_timeout"
    /\ CreatedOnceClosedLast(CallOut.session)
    /\ CallVerdict.found = FALSE

\* Rows were read and none qualified: the session was closed.
C28_WitnessNoRowsParsed ==
    /\ CallSearches
    /\ direct[1].br.kind = "table"
    /\ ParseRows(direct[1].br.rows) = <<>>
    /\ CreatedOnceClosedLast(CallOut.session)

\* ---------------------------------------------------------------- C29
\* The call d carried a JSON body without a verificationId or without a
\* timestamp.
LacksRequiredField(d) ==
    /\ d.event.body # BadJson
    /\ \/ ~Truthy(Get(ParseBody(d.event), "verificationId"))
       \/ ~Truthy(Get(ParseBody(d.event), "timestamp"))

\* The call d was refused: a 400 'Missing required fields', no registry
\* session, no write.
RefusedForMissingFields(d) ==
    /\ StatusIs(d.out.response, 400)
    /\ BodyOf(d.out.response) = [error |-> <<"Missing required fields">>]
    /\ d.out.session = <<>>
    /\ d.out.puts = <<>>

\* C29: when the Matching Stage is invoked without a verificationId or
\* without a timestamp, it returns a 400 'Missing required fields' error
\* and performs no registry session and no durable write; the durable store
\* is unchanged.
C29_MissingFieldsChangeNothing ==
    [][ (direct' # <<>> /\ LacksRequiredField(direct'[1])) =>
            /\ RefusedForMissingFields(direct'[1])
            /\ table' = table
            /\ written' = written ]_vars

\* A call without a timestamp was refused after an earlier call had put a
\* record, which the store still holds.
C29_Witness ==
    /\ direct # <<>>
    /\ "timestamp" \notin DOMAIN CallBody
    /\ RefusedForMissingFields(direct[1])
    /\ written = 1
    /\ DOMAIN table = {uuid4(1)}

\* A call whose verificationId is empty was refused.
C29_WitnessEmptyId ==
    /\ direct # <<>>
    /\ direct[1].event.body # BadJson
    /\ Get(CallBody, "verificationId") = <<>>
    /\ RefusedForMissingFields(direct[1])

====
